---------------------------- MODULE Spec2Model ----------------------------
(***************************************************************************)
(* A model of the keyword scoring and ranking engine                       *)
(* (src/src/agents/keyword_scorer.py), of the research workflow that       *)
(* feeds it (src/main.py) and of the workflow's clients                    *)
(* (src/src/clients).                                                      *)
(*                                                                         *)
(* Numbers.  Python floats are modelled by exact arithmetic:               *)
(*   - a weight is a reduced rational [n |-> numerator, d |-> denominator] *)
(*   - relevance_score and first_page_probability are kept in hundredths   *)
(*     (92 stands for 0.92), estimated_volume and competition_score are    *)
(*     integers as in the source;                                          *)
(*   - an opportunity score is kept in hundredths (5156 stands for 51.56), *)
(*     which is exactly the set of values round(x, 2) can return.          *)
(* sqrt(volume) is irrational in general; the rounded score is computed    *)
(* exactly from integer comparisons (FloorMulSqrt), never from a truncated *)
(* square root.  The binary representation error of a double (about 1e-16  *)
(* relative) is not modelled.                                              *)
(*                                                                         *)
(* Objects.  A keyword record is a Python dict, modelled as a function     *)
(* from the keys that are present to their values; heap[i] is the dict     *)
(* object with identity i, and a Python list of records is a sequence of   *)
(* identities, so that "the same object" is observable.                    *)
(*                                                                         *)
(* Strings.  A keyword or a domain that the workflow lower-cases, strips,  *)
(* measures or searches is the sequence of its characters; the keyword of  *)
(* a record is the str of that sequence.                                   *)
(***************************************************************************)
EXTENDS Integers, Sequences, FiniteSets, TLC

VARIABLES
    env,            \* the process environment the constructor reads
    scorer,         \* the KeywordScorer object (status and three weights)
    heap,           \* the keyword record objects, by identity
    keywords_data,  \* the caller's list of record identities
    call            \* the last call of a scorer method: its name,
                    \* arguments and return value; or the frame of the
                    \* call in progress of search, _merge_keywords,
                    \* research_keywords or of two threads' rank_keywords

vars == <<env, scorer, heap, keywords_data, call>>

---------------------------------------------------------------------------
(* Bounds of the model. *)

\* Largest number of records in the caller's list.
MaxPool == 3

---------------------------------------------------------------------------
(* Exact rational arithmetic standing for float arithmetic. *)

Abs(x) == IF x < 0 THEN -x ELSE x

RECURSIVE GCD(_, _)
GCD(a, b) == IF b = 0 THEN a ELSE GCD(b, a % b)

LCM(a, b) == (a \div GCD(a, b)) * b

\* The reduced rational n/d, d # 0.
Rat(n, d) ==
    LET g == GCD(Abs(n), Abs(d))
        s == IF d < 0 THEN -1 ELSE 1
    IN  [n |-> s * (n \div g), d |-> s * (d \div g)]

RatAdd(x, y) == Rat(x.n * y.d + y.n * x.d, x.d * y.d)
RatSub(x, y) == Rat(x.n * y.d - y.n * x.d, x.d * y.d)
RatDiv(x, y) == Rat(x.n * y.d, x.d * y.n)
RatAbs(x) == [n |-> Abs(x.n), d |-> x.d]
RatGT(x, y) == x.n * y.d > y.n * x.d

\* The largest r in lo..hi-1 with r*r <= n, by bisection (r = lo satisfies it).
RECURSIVE IsqrtIn(_, _, _)
IsqrtIn(n, lo, hi) ==
    IF hi - lo <= 1 THEN lo
    ELSE LET m == (lo + hi) \div 2
         IN  IF m * m <= n THEN IsqrtIn(n, m, hi) ELSE IsqrtIn(n, lo, m)

\* floor(sqrt(n)) for 0 <= n < 2^31.
Isqrt(n) == IsqrtIn(n, 0, IF n + 1 < 46341 THEN n + 1 ELSE 46341)

\* The largest r in lo..hi-1 with r^2 <= a * (a*e - 2*q*r), by bisection
\* (r = lo satisfies it, and the condition is downward closed in r).
RECURSIVE FloorMulSqrtIn(_, _, _, _, _)
FloorMulSqrtIn(a, e, q, lo, hi) ==
    IF hi - lo <= 1 THEN lo
    ELSE LET r == (lo + hi) \div 2
             m == a * e - 2 * q * r
         IN  IF m >= 0 /\ (r * r + a - 1) \div a <= m
             THEN FloorMulSqrtIn(a, e, q, r, hi)
             ELSE FloorMulSqrtIn(a, e, q, lo, r)

\* floor(a * sqrt(v)) for integers a >= 0, v >= 0 and q = floor(sqrt(v)),
\* exactly and within 32 bits: with e = v - q*q, the answer is a*q + r for
\* the largest r in 0..a-1 with (a*q + r)^2 <= a^2 * v, that is
\* r^2 <= a * (a*e - 2*q*r).
FloorMulSqrt(a, v, q) ==
    LET e == v - q * q
    IN  IF a = 0 \/ e = 0 THEN a * q ELSE a * q + FloorMulSqrtIn(a, e, q, 0, a)

---------------------------------------------------------------------------
(* Python dicts. *)

\* dict.get(k, default)
Get(d, k, default) == IF k \in DOMAIN d THEN d[k] ELSE default

\* d[k] = v
Put(d, k, v) == (k :> v) @@ d

\* The empty dict.
EmptyDict == [x \in {} |-> 0]

---------------------------------------------------------------------------
(* KeywordScorer.__init__ *)

One == Rat(1, 1)

\* The tolerance 0.01 of the weight-sum test.
Tolerance == Rat(1, 100)

\* float(os.getenv(name, default)): the configured value, or the default
\* when the variable is not set.
getenv_float(e, name, default) == Get(e, name, default)

\* The three weights as read from the environment.
configured_weights(e) ==
    [volume_weight |-> getenv_float(e, "VOLUME_WEIGHT", Rat(4, 10)),
     competition_weight |-> getenv_float(e, "COMPETITION_WEIGHT", Rat(4, 10)),
     relevance_weight |-> getenv_float(e, "RELEVANCE_WEIGHT", Rat(2, 10))]

\* A constructor that keeps the weights as read and never normalizes.
KeywordScorer_init_unnormalized(e) ==
    [status |-> "ready"] @@ configured_weights(e)

\* The scorer object the constructor leaves, or the exception it raises:
\* a total of 0 fails the tolerance test, and the first division raises
\* ZeroDivisionError.
KeywordScorer_init(e) ==
    LET w == configured_weights(e)
        total == RatAdd(RatAdd(w.volume_weight, w.competition_weight),
                        w.relevance_weight)
    IN  IF RatGT(RatAbs(RatSub(total, One)), Tolerance)
        THEN IF total.n = 0
             THEN [status |-> "ZeroDivisionError"]
             ELSE [status |-> "ready",
                   volume_weight |-> RatDiv(w.volume_weight, total),
                   competition_weight |-> RatDiv(w.competition_weight, total),
                   relevance_weight |-> RatDiv(w.relevance_weight, total)]
        ELSE [status |-> "ready"] @@ w

---------------------------------------------------------------------------
(* KeywordScorer.calculate_opportunity_score *)

\* A cut to two decimals in the place of the rounding: int(x * 100) / 100.
round2_truncating(sr, exact, D) == sr \div (2 * D)

\* round(x, 2) in hundredths, for x = (s + r) / (200 * D) where s + r is
\* the integer part of 200 * D * x and `exact` says that nothing was cut
\* off: to the nearest hundredth, an exact tie to the even one.
round2(sr, exact, D) ==
    LET up == (sr + D) \div (2 * D)
        tie == exact /\ (sr + D) % (2 * D) = 0
    IN  IF tie /\ up % 2 = 1 THEN up - 1 ELSE up

\* The volume term with the normalized volume inverted, as the competition
\* is: (100 - volume_normalized) * volume_weight.
weighted_volume_inverted(Wv, volume) ==
    20000 * Wv - (IF volume >= 1000000 THEN 20000 * Wv
                  ELSE FloorMulSqrt(20 * Wv, volume, Isqrt(volume)))

\* 200 * D * (volume_normalized * volume_weight) cut to an integer, for the
\* volume weight Wv / D, where volume_normalized = min(sqrt(volume) / 10, 100):
\* the cap is taken exactly when volume >= 10^6.
weighted_volume(Wv, volume) ==
    IF volume >= 1000000 THEN 20000 * Wv
    ELSE FloorMulSqrt(20 * Wv, volume, Isqrt(volume))

\* The score with a missing metric read as 0, as generate_reasoning reads
\* it.
calculate_opportunity_score_zero_defaults(self, keyword_data) ==
    LET volume == Get(keyword_data, "estimated_volume", 0)
        competition == Get(keyword_data, "competition_score", 0)
        relevance == Get(keyword_data, "relevance_score", 0)
        D == LCM(LCM(self.volume_weight.d, self.competition_weight.d),
                 self.relevance_weight.d)
        Wv == self.volume_weight.n * (D \div self.volume_weight.d)
        Wc == self.competition_weight.n * (D \div self.competition_weight.d)
        Wr == self.relevance_weight.n * (D \div self.relevance_weight.d)
        s == weighted_volume(Wv, volume)
        r == 200 * ((100 - competition) * Wc + relevance * Wr)
        exact == \/ volume >= 1000000
                 \/ Wv = 0
                 \/ Isqrt(volume) * Isqrt(volume) = volume
    IN  round2(s + r, exact, D)

\* The score with the competition taken as it is, not inverted:
\* competition * competition_weight.
calculate_opportunity_score_uninverted(self, keyword_data) ==
    LET volume == Get(keyword_data, "estimated_volume", 1000)
        competition == Get(keyword_data, "competition_score", 50)
        relevance == Get(keyword_data, "relevance_score", 50)
        D == LCM(LCM(self.volume_weight.d, self.competition_weight.d),
                 self.relevance_weight.d)
        Wv == self.volume_weight.n * (D \div self.volume_weight.d)
        Wc == self.competition_weight.n * (D \div self.competition_weight.d)
        Wr == self.relevance_weight.n * (D \div self.relevance_weight.d)
        s == weighted_volume(Wv, volume)
        r == 200 * (competition * Wc + relevance * Wr)
        exact == \/ volume >= 1000000
                 \/ Wv = 0
                 \/ Isqrt(volume) * Isqrt(volume) = volume
    IN  round2(s + r, exact, D)

\* The opportunity score of a record, in hundredths.
calculate_opportunity_score(self, keyword_data) ==
    LET volume == Get(keyword_data, "estimated_volume", 1000)
        competition == Get(keyword_data, "competition_score", 50)
        relevance == Get(keyword_data, "relevance_score", 50)
        competition_score == 100 - competition
        relevance_score == relevance
        \* The weights over their common denominator D.
        D == LCM(LCM(self.volume_weight.d, self.competition_weight.d),
                 self.relevance_weight.d)
        Wv == self.volume_weight.n * (D \div self.volume_weight.d)
        Wc == self.competition_weight.n * (D \div self.competition_weight.d)
        Wr == self.relevance_weight.n * (D \div self.relevance_weight.d)
        s == weighted_volume(Wv, volume)
        \* 200 * D * (the competition and relevance terms).
        r == 200 * (competition_score * Wc + relevance_score * Wr)
        \* The volume term is rational: s is all of it.
        exact == \/ volume >= 1000000
                 \/ Wv = 0
                 \/ Isqrt(volume) * Isqrt(volume) = volume
    IN  round2(s + r, exact, D)

---------------------------------------------------------------------------
(* KeywordScorer.calculate_keyword_difficulty *)

\* The total-results factor with inclusive thresholds.
total_results_points_inclusive(total_results) ==
    IF total_results >= 100000000 THEN 30
    ELSE IF total_results >= 10000000 THEN 20
    ELSE IF total_results >= 1000000 THEN 10
    ELSE 0

\* The points of the total-results factor.
total_results_points(total_results) ==
    IF total_results > 100000000 THEN 30
    ELSE IF total_results > 10000000 THEN 20
    ELSE IF total_results > 1000000 THEN 10
    ELSE 0

\* The points of one SERP feature flag.
feature_points(serp_analysis, flag) ==
    IF Get(serp_analysis, flag, FALSE) THEN 10 ELSE 0

calculate_keyword_difficulty(serp_analysis) ==
    LET big_brands == Get(serp_analysis, "big_brands_count", 0)
        brands == IF big_brands * 8 < 40 THEN big_brands * 8 ELSE 40
        total_results == Get(serp_analysis, "total_results", 0)
        difficulty == brands
                      + feature_points(serp_analysis, "has_featured_snippet")
                      + feature_points(serp_analysis, "has_knowledge_graph")
                      + feature_points(serp_analysis, "has_ads")
                      + total_results_points(total_results)
    IN  IF difficulty < 100 THEN difficulty ELSE 100

---------------------------------------------------------------------------
(* KeywordScorer.estimate_ranking_potential, _generate_recommendation *)

\* The recommendation texts (without their leading pictograph).
HighPriority ==
    "High Priority: Low competition, good volume - target immediately"
QuickWin ==
    "Quick Win: Easy to rank, highly relevant - great for content strategy"
LongTermTarget ==
    "Long-term Target: High competition - requires authority building"
NicheOpportunity ==
    "Niche Opportunity: Low volume but easy rank - good for specific audiences"
ModerateOpportunity ==
    "Moderate Opportunity: Balanced metrics - include in content mix"
LowPriority ==
    "Low Priority: Better opportunities available - consider alternatives"

\* The rule chain with the second rule tried before the first.
generate_recommendation_reordered(keyword_data) ==
    LET competition == Get(keyword_data, "competition_score", 50)
        volume == Get(keyword_data, "estimated_volume", 1000)
        relevance == Get(keyword_data, "relevance_score", 50)
        opportunity == Get(keyword_data, "opportunity_score", 5000)
    IN  IF competition < 30 /\ relevance > 70 THEN QuickWin
        ELSE IF opportunity >= 7000 /\ competition < 40 THEN HighPriority
        ELSE IF volume > 5000 /\ competition > 70 THEN LongTermTarget
        ELSE IF competition < 30 /\ volume < 500 THEN NicheOpportunity
        ELSE IF 4000 <= opportunity /\ opportunity < 7000
             THEN ModerateOpportunity
        ELSE LowPriority

generate_recommendation(keyword_data) ==
    LET competition == Get(keyword_data, "competition_score", 50)
        volume == Get(keyword_data, "estimated_volume", 1000)
        relevance == Get(keyword_data, "relevance_score", 50)
        opportunity == Get(keyword_data, "opportunity_score", 5000)
    IN  IF opportunity >= 7000 /\ competition < 40 THEN HighPriority
        ELSE IF competition < 30 /\ relevance > 70 THEN QuickWin
        ELSE IF volume > 5000 /\ competition > 70 THEN LongTermTarget
        ELSE IF competition < 30 /\ volume < 500 THEN NicheOpportunity
        ELSE IF 4000 <= opportunity /\ opportunity < 7000
             THEN ModerateOpportunity
        ELSE LowPriority

\* The bands with inclusive upper bounds.
difficulty_category_inclusive(competition) ==
    IF competition <= 30 THEN "Low"
    ELSE IF competition <= 50 THEN "Medium-Low"
    ELSE IF competition <= 70 THEN "Medium"
    ELSE IF competition <= 85 THEN "Medium-High"
    ELSE "High"

difficulty_category(competition) ==
    IF competition < 30 THEN "Low"
    ELSE IF competition < 50 THEN "Medium-Low"
    ELSE IF competition < 70 THEN "Medium"
    ELSE IF competition < 85 THEN "Medium-High"
    ELSE "High"

difficulty_description(competition) ==
    IF competition < 30 THEN "Easy to rank with quality content"
    ELSE IF competition < 50 THEN "Good opportunity with moderate effort"
    ELSE IF competition < 70 THEN "Requires strong content and backlinks"
    ELSE IF competition < 85
         THEN "Challenging, needs authority and optimization"
    ELSE "Very difficult, dominated by major brands"

\* The ratings with strict thresholds.
opportunity_rating_strict(opportunity) ==
    IF opportunity > 7500 THEN "Excellent"
    ELSE IF opportunity > 6000 THEN "Good"
    ELSE IF opportunity > 4500 THEN "Fair"
    ELSE "Poor"

opportunity_rating(opportunity) ==
    IF opportunity >= 7500 THEN "Excellent"
    ELSE IF opportunity >= 6000 THEN "Good"
    ELSE IF opportunity >= 4500 THEN "Fair"
    ELSE "Poor"

estimate_ranking_potential(keyword_data) ==
    LET competition == Get(keyword_data, "competition_score", 50)
        first_page_prob == Get(keyword_data, "first_page_probability", 50)
        opportunity == Get(keyword_data, "opportunity_score", 5000)
    IN  [difficulty_category |-> difficulty_category(competition),
         difficulty_description |-> difficulty_description(competition),
         opportunity_rating |-> opportunity_rating(opportunity),
         first_page_probability |-> first_page_prob,
         recommendation |-> generate_recommendation(keyword_data)]

---------------------------------------------------------------------------
(* KeywordScorer.rank_keywords *)

\* A turn of the scoring loop that stores the score alone.
score_record_without_potential(self, kw_data) ==
    Put(kw_data, "opportunity_score",
        calculate_opportunity_score(self, kw_data))

\* A turn of the scoring loop that computes the ranking potential before
\* it stores the score.
score_record_potential_first(self, kw_data) ==
    LET potential == estimate_ranking_potential(kw_data)
        scored == Put(kw_data, "opportunity_score",
                      calculate_opportunity_score(self, kw_data))
    IN  Put(scored, "ranking_potential", potential)

\* One turn of the scoring loop: the score is stored in the record before
\* the ranking potential is computed from the record.
score_record(self, kw_data) ==
    LET scored == Put(kw_data, "opportunity_score",
                      calculate_opportunity_score(self, kw_data))
    IN  Put(scored, "ranking_potential", estimate_ranking_potential(scored))

\* The heap after the scoring loop has visited list[k], list[k+1], ...
RECURSIVE score_from(_, _, _, _)
score_from(self, h, list, k) ==
    IF k > Len(list) THEN h
    ELSE score_from(self,
                    [h EXCEPT ![list[k]] = score_record(self, @)],
                    list, k + 1)

\* An ascending insertion: the sort without reverse=True.
insert_ascending(h, acc, x) ==
    LET key(i) == h[i]["opportunity_score"]
        ahead == Cardinality({j \in 1..Len(acc) : key(acc[j]) <= key(x)})
    IN  SubSeq(acc, 1, ahead) \o <<x>> \o SubSeq(acc, ahead + 1, Len(acc))

\* A descending insertion ahead of the records with an equal key: what
\* an ascending stable sort followed by list.reverse() would give.
insert_ahead_of_equal(h, acc, x) ==
    LET key(i) == h[i]["opportunity_score"]
        ahead == Cardinality({j \in 1..Len(acc) : key(acc[j]) > key(x)})
    IN  SubSeq(acc, 1, ahead) \o <<x>> \o SubSeq(acc, ahead + 1, Len(acc))

\* Record x inserted into the descending list acc behind every record whose
\* key is greater than or equal to its own.
insert_behind_equal(h, acc, x) ==
    LET key(i) == h[i]["opportunity_score"]
        ahead == Cardinality({j \in 1..Len(acc) : key(acc[j]) >= key(x)})
    IN  SubSeq(acc, 1, ahead) \o <<x>> \o SubSeq(acc, ahead + 1, Len(acc))

\* sorted(list, key=opportunity_score, reverse=True): descending by key,
\* records with equal keys in their order in the list (Python's sort is
\* stable, also with reverse=True).  sort_from(h, list, k, acc) is the
\* sorted list of acc's records and list[k], list[k+1], ...
RECURSIVE sort_from(_, _, _, _)
sort_from(h, list, k, acc) ==
    IF k > Len(list) THEN acc
    ELSE sort_from(h, list, k + 1, insert_behind_equal(h, acc, list[k]))

\* A sort of the scores followed by a lookup of the record of each score:
\* every position holds the first record of the list with that score.
sorted_reverse_by_lookup(h, list) ==
    LET key(i) == h[i]["opportunity_score"]
        sorted == sort_from(h, list, 1, << >>)
        first_with(v) ==
            CHOOSE j \in 1..Len(list) :
                /\ key(list[j]) = v
                /\ \A m \in 1..(j - 1) : key(list[m]) # v
    IN  [k \in 1..Len(sorted) |-> list[first_with(key(sorted[k]))]]

sorted_reverse(h, list) == sort_from(h, list, 1, << >>)

\* A slice that takes a negative n for 0.
slice_to_first(list, n) ==
    SubSeq(list, 1, IF n < 0 THEN 0 ELSE IF n > Len(list) THEN Len(list) ELSE n)

\* list[:n], a Python slice: a negative n counts from the end.
slice_to(list, n) ==
    LET len == Len(list)
        stop == IF n < 0
                THEN (IF len + n < 0 THEN 0 ELSE len + n)
                ELSE (IF n > len THEN len ELSE n)
    IN  SubSeq(list, 1, stop)

\* The heap after enumerate(list, 1) has written the rank numbers of
\* list[k], list[k+1], ...
RECURSIVE add_rank_from(_, _, _)
add_rank_from(h, list, k) ==
    IF k > Len(list) THEN h
    ELSE add_rank_from([h EXCEPT ![list[k]] = Put(@, "rank", k)],
                       list, k + 1)

\* rank_keywords(keywords_data, top_n): the heap it leaves and the list it
\* returns.
rank_keywords(self, h, list, n) ==
    LET scored == score_from(self, h, list, 1)
        sorted_keywords == sorted_reverse(scored, list)
    IN  [heap |-> add_rank_from(scored, slice_to(sorted_keywords, n), 1),
         ret |-> slice_to(sorted_keywords, n)]

---------------------------------------------------------------------------
(* KeywordScorer.generate_reasoning *)

\* The three decimal digits of n < 1000, with leading zeros.
three_digits(n) ==
    (IF n < 100 THEN "0" ELSE "") \o (IF n < 10 THEN "0" ELSE "")
        \o ToString(n)

\* f"{n:,}" for an integer n >= 0: the decimal digits in groups of three.
RECURSIVE format_thousands(_)
format_thousands(n) ==
    IF n < 1000 THEN ToString(n)
    ELSE format_thousands(n \div 1000) \o "," \o three_digits(n % 1000)

\* ", ".join(reasons[k:])
RECURSIVE join_from(_, _)
join_from(reasons, k) ==
    IF k > Len(reasons) THEN ""
    ELSE IF k = Len(reasons) THEN reasons[k]
    ELSE reasons[k] \o ", " \o join_from(reasons, k + 1)

\* The reasons with a SERP feature clause for every flag the record holds,
\* true or false.
reasons_of_flag_present(keyword_data) ==
    LET volume == Get(keyword_data, "estimated_volume", 0)
        competition == Get(keyword_data, "competition_score", 0)
        relevance == Get(keyword_data, "relevance_score", 0)
        big_brands == Get(keyword_data, "big_brands_count", 0)
        per_month == " (" \o format_thousands(volume) \o "/month)"
        volume_reason ==
            IF volume > 5000 THEN "high search volume" \o per_month
            ELSE IF volume > 1000 THEN "moderate search volume" \o per_month
            ELSE "low search volume" \o per_month
        competition_reason ==
            IF competition < 30 THEN "low competition"
            ELSE IF competition < 50 THEN "moderate competition"
            ELSE "high competition"
        brands_reason ==
            IF big_brands = 0 THEN "no major brands in top 10"
            ELSE IF big_brands <= 2
                 THEN "only " \o ToString(big_brands)
                          \o " major brand(s) in top 10"
            ELSE ToString(big_brands) \o " major brands dominating results"
        relevance_reason ==
            IF relevance >= 80 THEN "highly relevant to seed keyword"
            ELSE IF relevance >= 60 THEN "moderately relevant"
            ELSE "loosely related"
    IN  <<volume_reason, competition_reason, brands_reason, relevance_reason>>
        \o (IF "has_featured_snippet" \in DOMAIN keyword_data
            THEN <<"featured snippet present">> ELSE << >>)
        \o (IF "has_knowledge_graph" \in DOMAIN keyword_data
            THEN <<"knowledge graph present">> ELSE << >>)

\* The list of reasons, in the order the method appends them.
reasons_of(keyword_data) ==
    LET volume == Get(keyword_data, "estimated_volume", 0)
        competition == Get(keyword_data, "competition_score", 0)
        relevance == Get(keyword_data, "relevance_score", 0)
        big_brands == Get(keyword_data, "big_brands_count", 0)
        per_month == " (" \o format_thousands(volume) \o "/month)"
        volume_reason ==
            IF volume > 5000 THEN "high search volume" \o per_month
            ELSE IF volume > 1000 THEN "moderate search volume" \o per_month
            ELSE "low search volume" \o per_month
        competition_reason ==
            IF competition < 30 THEN "low competition"
            ELSE IF competition < 50 THEN "moderate competition"
            ELSE "high competition"
        brands_reason ==
            IF big_brands = 0 THEN "no major brands in top 10"
            ELSE IF big_brands <= 2
                 THEN "only " \o ToString(big_brands)
                          \o " major brand(s) in top 10"
            ELSE ToString(big_brands) \o " major brands dominating results"
        relevance_reason ==
            IF relevance >= 80 THEN "highly relevant to seed keyword"
            ELSE IF relevance >= 60 THEN "moderately relevant"
            ELSE "loosely related"
    IN  <<volume_reason, competition_reason, brands_reason, relevance_reason>>
        \o (IF Get(keyword_data, "has_featured_snippet", FALSE)
            THEN <<"featured snippet present">> ELSE << >>)
        \o (IF Get(keyword_data, "has_knowledge_graph", FALSE)
            THEN <<"knowledge graph present">> ELSE << >>)

generate_reasoning(keyword_data) ==
    Get(keyword_data, "keyword", "") \o ": "
        \o join_from(reasons_of(keyword_data), 1)

---------------------------------------------------------------------------
(* Inputs. *)

\* A dict holding key k with a value of S, or not holding it.
Optional(k, S) == {EmptyDict} \cup {[x \in {k} |-> v] : v \in S}

\* Environments: the three weights, each set or left to its default.  No
\* total lies exactly 0.01 from 1.0, where the tolerance test of a double
\* is decided by representation error.
ConfiguredEnvs ==
    { EmptyDict,
      [VOLUME_WEIGHT |-> Rat(81, 200)],
      [VOLUME_WEIGHT |-> Rat(79, 200)],
      [VOLUME_WEIGHT |-> Rat(1, 2), COMPETITION_WEIGHT |-> Rat(1, 2),
       RELEVANCE_WEIGHT |-> Rat(1, 2)],
      [VOLUME_WEIGHT |-> Rat(0, 1), COMPETITION_WEIGHT |-> Rat(0, 1),
       RELEVANCE_WEIGHT |-> Rat(0, 1)],
      [VOLUME_WEIGHT |-> Rat(1, 1), COMPETITION_WEIGHT |-> Rat(0, 1),
       RELEVANCE_WEIGHT |-> Rat(0, 1)],
      [VOLUME_WEIGHT |-> Rat(2, 1), COMPETITION_WEIGHT |-> Rat(1, 1),
       RELEVANCE_WEIGHT |-> Rat(1, 1)],
      [VOLUME_WEIGHT |-> Rat(0, 1)],
      [COMPETITION_WEIGHT |-> Rat(1, 200)] }

\* The environments of the ranking runs: the defaults, a triple that is
\* normalized, and the volume weight alone.
RankingEnvs ==
    { EmptyDict,
      [VOLUME_WEIGHT |-> Rat(1, 2), COMPETITION_WEIGHT |-> Rat(1, 2),
       RELEVANCE_WEIGHT |-> Rat(1, 2)],
      [VOLUME_WEIGHT |-> Rat(1, 1), COMPETITION_WEIGHT |-> Rat(0, 1),
       RELEVANCE_WEIGHT |-> Rat(0, 1)] }

Volumes == {0, 400, 499, 500, 1000, 2400, 5000, 5001, 999999, 1000000, 4000000}
Competitions == {0, 22, 29, 30, 39, 40, 49, 50, 69, 70, 71, 84, 85, 100}
Relevances == {0, 50, 70, 71, 92, 100}
Opportunities ==
    {0, 3126, 3999, 4000, 4499, 4500, 5156, 5999, 6000, 6999, 7000, 7499,
     7500, 10000}

\* Records handed to calculate_opportunity_score: each raw metric present
\* or missing.
ScoreArgs ==
    { v @@ c @@ r :
        v \in Optional("estimated_volume", Volumes),
        c \in Optional("competition_score", Competitions),
        r \in Optional("relevance_score", Relevances) }

\* Records handed to estimate_ranking_potential: scored or not.
PotentialArgs ==
    { o @@ c @@ v @@ r @@ f :
        o \in Optional("opportunity_score", Opportunities),
        c \in Optional("competition_score", Competitions),
        v \in Optional("estimated_volume", {499, 500, 5000, 5001}),
        r \in Optional("relevance_score", {70, 71}),
        f \in Optional("first_page_probability", {78}) }

\* Records handed to generate_reasoning: every field it reads present or
\* missing, the numbers on both sides of its thresholds.
ReasoningArgs ==
    { k @@ v @@ c @@ r @@ b @@ f @@ g :
        k \in Optional("keyword", {"seo tools"}),
        v \in Optional("estimated_volume", {1000, 1001, 5000, 5001}),
        c \in Optional("competition_score", {29, 30, 49, 50}),
        r \in Optional("relevance_score", {59, 60, 79, 80}),
        b \in Optional("big_brands_count", {0, 2, 3}),
        f \in Optional("has_featured_snippet", BOOLEAN),
        g \in Optional("has_knowledge_graph", BOOLEAN) }

\* SERP analyses handed to calculate_keyword_difficulty.
SerpAnalyses ==
    { b @@ f @@ g @@ a @@ t :
        b \in Optional("big_brands_count", {0, 3, 4, 5, 6, 10}),
        f \in Optional("has_featured_snippet", BOOLEAN),
        g \in Optional("has_knowledge_graph", BOOLEAN),
        a \in Optional("has_ads", BOOLEAN),
        t \in Optional("total_results",
                       {0, 1000000, 1000001, 10000000, 10000001,
                        100000000, 100000001, 200000000}) }

\* Records of the caller's list: one with no metric, the sample record of
\* the module's example, and two with equal scores at and above the volume
\* cap, one of them without competition and relevance, the other with the
\* score an earlier run under other weights left in it.
PoolRecords ==
    { EmptyDict,
      [keyword |-> "remote international internship programs",
       estimated_volume |-> 2400, competition_score |-> 22,
       relevance_score |-> 92, big_brands_count |-> 1,
       has_featured_snippet |-> FALSE, has_knowledge_graph |-> FALSE,
       first_page_probability |-> 78],
      [keyword |-> "seo tools", estimated_volume |-> 1000000],
      [estimated_volume |-> 4000000, competition_score |-> 50,
       relevance_score |-> 50, big_brands_count |-> 3,
       has_featured_snippet |-> TRUE, opportunity_score |-> 9000] }

\* The lists of at most MaxPool records.
Pools == UNION {[1..n -> PoolRecords] : n \in 0..MaxPool}

TopNs == (0 - 2)..(MaxPool + 1)

NoCall == [op |-> "none"]

---------------------------------------------------------------------------
(* The scorer and a list of records: construction, then rankings. *)

Init ==
    /\ env \in RankingEnvs
    /\ scorer = [status |-> "new"]
    /\ heap \in Pools
    /\ keywords_data = [i \in 1..Len(heap) |-> i]
    /\ call = NoCall

\* scorer = KeywordScorer()
Construct ==
    /\ scorer.status = "new"
    /\ scorer' = KeywordScorer_init(env)
    /\ UNCHANGED <<env, heap, keywords_data, call>>

\* scorer.rank_keywords(keywords_data, n)
RankKeywords ==
    /\ scorer.status = "ready"
    /\ \E n \in TopNs :
          LET result == rank_keywords(scorer, heap, keywords_data, n)
          IN  /\ heap' = result.heap
              /\ call' = [op |-> "rank_keywords", top_n |-> n,
                          ret |-> result.ret]
    /\ UNCHANGED <<env, scorer, keywords_data>>

Next == Construct \/ RankKeywords

Spec == Init /\ [][Next]_vars

---------------------------------------------------------------------------
(* The scorer and a list of records: construction, rankings, and direct   *)
(* calls of the other methods on the records of the list.  A behaviour    *)
(* makes at most one direct call, as its last call.                       *)

DirectOps ==
    {"calculate_opportunity_score", "estimate_ranking_potential",
     "generate_reasoning"}

\* The last call was a direct call.
AfterDirectCall == call.op \in DirectOps

\* A call that stores the score it computed in the record, as the scoring
\* loop of rank_keywords does.
CalculateOpportunityScoreOf_storing ==
    /\ scorer.status = "ready"
    /\ ~AfterDirectCall
    /\ \E k \in 1..Len(keywords_data) :
          LET kw == keywords_data[k]
              score == calculate_opportunity_score(scorer, heap[kw])
          IN  /\ call' = [op |-> "calculate_opportunity_score", obj |-> kw,
                          arg |-> heap[kw], ret |-> score]
              /\ heap' = [heap EXCEPT ![kw] = Put(@, "opportunity_score", score)]
    /\ UNCHANGED <<env, scorer, keywords_data>>

\* scorer.calculate_opportunity_score(kw) on a record of the list: the
\* method assigns to no key of the record.
CalculateOpportunityScoreOf ==
    /\ scorer.status = "ready"
    /\ ~AfterDirectCall
    /\ \E k \in 1..Len(keywords_data) :
          LET kw == keywords_data[k]
          IN  call' = [op |-> "calculate_opportunity_score", obj |-> kw,
                       arg |-> heap[kw],
                       ret |-> calculate_opportunity_score(scorer, heap[kw])]
    /\ UNCHANGED <<env, scorer, heap, keywords_data>>

\* scorer.estimate_ranking_potential(kw) on a record of the list.
EstimateRankingPotentialOf ==
    /\ scorer.status = "ready"
    /\ ~AfterDirectCall
    /\ \E k \in 1..Len(keywords_data) :
          LET kw == keywords_data[k]
          IN  call' = [op |-> "estimate_ranking_potential", obj |-> kw,
                       arg |-> heap[kw],
                       ret |-> estimate_ranking_potential(heap[kw])]
    /\ UNCHANGED <<env, scorer, heap, keywords_data>>

\* scorer.generate_reasoning(kw) on a record of the list.
GenerateReasoningOf ==
    /\ scorer.status = "ready"
    /\ ~AfterDirectCall
    /\ \E k \in 1..Len(keywords_data) :
          LET kw == keywords_data[k]
          IN  call' = [op |-> "generate_reasoning", obj |-> kw,
                       arg |-> heap[kw],
                       ret |-> generate_reasoning(heap[kw])]
    /\ UNCHANGED <<env, scorer, heap, keywords_data>>

NextRecords ==
    \/ Construct
    \/ (~AfterDirectCall /\ RankKeywords)
    \/ CalculateOpportunityScoreOf
    \/ EstimateRankingPotentialOf
    \/ GenerateReasoningOf

SpecRecords == Init /\ [][NextRecords]_vars

---------------------------------------------------------------------------
(* The scorer and one direct call of one of its methods on a record.  The *)
(* methods called here read nothing that an earlier call wrote, so one    *)
(* call per behaviour reaches every state a sequence of calls reaches.    *)

InitCalls ==
    /\ env \in ConfiguredEnvs
    /\ scorer = [status |-> "new"]
    /\ heap = << >>
    /\ keywords_data = << >>
    /\ call = NoCall

\* scorer.calculate_opportunity_score(keyword_data)
CalculateOpportunityScore ==
    /\ scorer.status = "ready"
    /\ call = NoCall
    /\ \E keyword_data \in ScoreArgs :
          call' = [op |-> "calculate_opportunity_score",
                   arg |-> keyword_data,
                   ret |-> calculate_opportunity_score(scorer, keyword_data)]
    /\ UNCHANGED <<env, scorer, heap, keywords_data>>

\* scorer.estimate_ranking_potential(keyword_data)
EstimateRankingPotential ==
    /\ scorer.status = "ready"
    /\ call = NoCall
    /\ \E keyword_data \in PotentialArgs :
          call' = [op |-> "estimate_ranking_potential",
                   arg |-> keyword_data,
                   ret |-> estimate_ranking_potential(keyword_data)]
    /\ UNCHANGED <<env, scorer, heap, keywords_data>>

\* scorer.generate_reasoning(keyword_data)
GenerateReasoning ==
    /\ scorer.status = "ready"
    /\ call = NoCall
    /\ \E keyword_data \in ReasoningArgs :
          call' = [op |-> "generate_reasoning",
                   arg |-> keyword_data,
                   ret |-> generate_reasoning(keyword_data)]
    /\ UNCHANGED <<env, scorer, heap, keywords_data>>

\* scorer.calculate_keyword_difficulty(serp_analysis)
CalculateKeywordDifficulty ==
    /\ scorer.status = "ready"
    /\ call = NoCall
    /\ \E serp_analysis \in SerpAnalyses :
          call' = [op |-> "calculate_keyword_difficulty",
                   arg |-> serp_analysis,
                   ret |-> calculate_keyword_difficulty(serp_analysis)]
    /\ UNCHANGED <<env, scorer, heap, keywords_data>>

NextCalls ==
    \/ Construct
    \/ CalculateOpportunityScore
    \/ EstimateRankingPotential
    \/ GenerateReasoning
    \/ CalculateKeywordDifficulty

SpecCalls == InitCalls /\ [][NextCalls]_vars

---------------------------------------------------------------------------
(* SerpClient.search (src/src/clients/serp_client.py): one call, attempt  *)
(* by attempt.  call is the frame of the call: the loop variable, what    *)
(* the call has done so far (log), and how it ended.                      *)

max_retries == 3

retry_delay == 1

\* What GoogleSearch(params).get_dict() returns when it does not raise: a
\* response without results, an error response, and two result pages.  A
\* response of the API always carries search_metadata.
SearchResponses ==
    { [search_metadata |-> "Success"],
      [search_metadata |-> "Error", error |-> "Invalid API key"],
      [search_metadata |-> "Success",
       search_information |-> [total_results |-> 250000000],
       organic_results |-> <<[domain |-> "en.wikipedia.org"],
                             [displayed_link |-> "www.Reddit.com"],
                             [domain |-> "example.com"]>>,
       answer_box |-> "box", top_ads |-> "ads"],
      [search_metadata |-> "Success",
       search_information |-> [total_results |-> 1000000],
       organic_results |-> <<[domain |-> "example.com"]>>,
       knowledge_graph |-> "graph"] }

\* What it raises when it raises.
ApiErrors == {"ConnectionError", "Timeout", "HTTPError"}

\* What one attempt does: it returns a response or raises an error.
ApiOutcomes ==
    [ok : {TRUE}, results : SearchResponses, error : {"none"}]
        \cup [ok : {FALSE}, results : {EmptyDict}, error : ApiErrors]

SearchKeywords == {"global internship", "seo tools"}

\* The entries of the log of a call.
AttemptEntry(e) == [what |-> "attempt", error |-> e, secs |-> 0]

SleepEntry(secs) == [what |-> "sleep", error |-> "none", secs |-> secs]

\* The frame at the start of search(keyword).
search_frame(keyword) ==
    [op |-> "search", keyword |-> keyword, attempt |-> 0,
     status |-> "running", log |-> << >>, ret |-> EmptyDict,
     error |-> "none"]

\* The try block: the attempt succeeded and its response is returned.
search_try(frame, results) ==
    [frame EXCEPT !.status = "returned", !.ret = results,
                  !.log = Append(@, AttemptEntry("none"))]

\* A handler that sleeps after every failed attempt and never re-raises,
\* so that the loop runs out and the empty dict is returned.
search_except_swallowing(frame, e) ==
    LET slept == frame.log \o <<AttemptEntry(e), SleepEntry(retry_delay)>>
    IN  IF frame.attempt + 1 < max_retries
        THEN [frame EXCEPT !.attempt = @ + 1, !.log = slept]
        ELSE [frame EXCEPT !.status = "returned", !.ret = EmptyDict,
                           !.log = slept]

\* The except block and the step of the loop after it: before the last
\* attempt of the range the call sleeps and goes on to the next attempt (or
\* to the return of the empty dict after the loop, if the range has no
\* next attempt); at the last attempt it re-raises.
search_except(frame, e) ==
    LET failed == Append(frame.log, AttemptEntry(e))
        slept == Append(failed, SleepEntry(retry_delay))
    IN  IF frame.attempt < max_retries - 1
        THEN (IF frame.attempt + 1 < max_retries
              THEN [frame EXCEPT !.attempt = @ + 1, !.log = slept]
              ELSE [frame EXCEPT !.status = "returned", !.ret = EmptyDict,
                                 !.log = slept])
        ELSE [frame EXCEPT !.status = "raised", !.error = e,
                           !.log = failed]

\* One turn of the loop under the given outcome of the API.
search_attempt(frame, outcome) ==
    IF outcome.ok THEN search_try(frame, outcome.results)
    ELSE search_except(frame, outcome.error)

\* The frame when the call has ended, the k-th attempt and the ones after
\* it having the outcomes outcomes[k], outcomes[k+1], ...
RECURSIVE search_from(_, _, _)
search_from(frame, outcomes, k) ==
    IF frame.status # "running" \/ k > Len(outcomes) THEN frame
    ELSE search_from(search_attempt(frame, outcomes[k]), outcomes, k + 1)

\* search(keyword) under the outcomes of the attempts, as a whole.
search(keyword, outcomes) == search_from(search_frame(keyword), outcomes, 1)

InitSearch ==
    /\ env = [SERP_API_KEY |-> "key"]
    /\ scorer = [status |-> "new"]
    /\ heap = << >>
    /\ keywords_data = << >>
    /\ \E keyword \in SearchKeywords : call = search_frame(keyword)

\* An attempt whose API call returns.
SearchAttemptReturns ==
    /\ call.status = "running"
    /\ \E results \in SearchResponses : call' = search_try(call, results)
    /\ UNCHANGED <<env, scorer, heap, keywords_data>>

\* An attempt whose API call raises.
SearchAttemptRaises ==
    /\ call.status = "running"
    /\ \E e \in ApiErrors : call' = search_except(call, e)
    /\ UNCHANGED <<env, scorer, heap, keywords_data>>

NextSearch == SearchAttemptReturns \/ SearchAttemptRaises

SpecSearch == InitSearch /\ [][NextSearch]_vars

---------------------------------------------------------------------------
(* SEOKeywordAgent._merge_keywords and _add_relevance_scores              *)
(* (src/main.py).  A Python str is modelled as the sequence of its        *)
(* characters, so that lower(), strip() and len() are computed.  call is  *)
(* the frame of the call of _merge_keywords, turn by turn of its loop.    *)

MaxSuggestions == 2

UpperCase ==
    <<"A", "B", "C", "D", "E", "F", "G", "H", "I", "J", "K", "L", "M",
      "N", "O", "P", "Q", "R", "S", "T", "U", "V", "W", "X", "Y", "Z">>

LowerCase ==
    <<"a", "b", "c", "d", "e", "f", "g", "h", "i", "j", "k", "l", "m",
      "n", "o", "p", "q", "r", "s", "t", "u", "v", "w", "x", "y", "z">>

\* The characters str.strip() removes (of the ASCII ones, those the model
\* uses).
Whitespace == {" ", "\t", "\n"}

\* str.lower(), on ASCII text.
lower(s) ==
    [k \in 1..Len(s) |->
        IF \E n \in 1..26 : UpperCase[n] = s[k]
        THEN LowerCase[CHOOSE n \in 1..26 : UpperCase[n] = s[k]]
        ELSE s[k]]

\* str.strip(): without the whitespace at its two ends.
strip(s) ==
    LET inner == {k \in 1..Len(s) : s[k] \notin Whitespace}
    IN  IF inner = {} THEN << >>
        ELSE SubSeq(s, CHOOSE k \in inner : \A j \in inner : k <= j,
                       CHOOSE k \in inner : \A j \in inner : k >= j)

\* The str of a sequence of characters, as a record's keyword holds it.
RECURSIVE as_str(_)
as_str(s) == IF s = << >> THEN "" ELSE s[1] \o as_str(Tail(s))

\* A turn of the loop that looks the raw keyword up in seen.
merge_visit_raw_seen(frame, kw) ==
    LET kw_clean == strip(lower(kw))
    IN  IF kw_clean # << >> /\ kw \notin frame.seen /\ Len(kw_clean) > 3
        THEN [frame EXCEPT !.i = @ + 1,
                           !.seen = @ \cup {kw},
                           !.unique_keywords = Append(@, kw_clean)]
        ELSE [frame EXCEPT !.i = @ + 1]

\* One turn of the loop of _merge_keywords, on the keyword kw.
merge_visit(frame, kw) ==
    LET kw_clean == strip(lower(kw))
    IN  IF kw_clean # << >> /\ kw_clean \notin frame.seen /\ Len(kw_clean) > 3
        THEN [frame EXCEPT !.i = @ + 1,
                           !.seen = @ \cup {kw_clean},
                           !.unique_keywords = Append(@, kw_clean)]
        ELSE [frame EXCEPT !.i = @ + 1]

\* The frame of _merge_keywords(llm_kw, serp_kw, trends_kw, seed_kw) when
\* its loop starts.
merge_frame(llm_kw, serp_kw, trends_kw, seed_kw) ==
    [op |-> "_merge_keywords",
     llm_kw |-> llm_kw, serp_kw |-> serp_kw, trends_kw |-> trends_kw,
     seed_kw |-> seed_kw,
     all_keywords |-> Append(llm_kw \o serp_kw \o trends_kw, lower(seed_kw)),
     i |-> 0, seen |-> {}, unique_keywords |-> << >>,
     status |-> "running", ret |-> << >>]

\* The frame after the turns of the loop from the current one on.
RECURSIVE merge_from(_)
merge_from(frame) ==
    IF frame.i >= Len(frame.all_keywords) THEN frame
    ELSE merge_from(merge_visit(frame, frame.all_keywords[frame.i + 1]))

\* _merge_keywords as a whole: the list it returns.
merge_keywords(llm_kw, serp_kw, trends_kw, seed_kw) ==
    merge_from(merge_frame(llm_kw, serp_kw, trends_kw, seed_kw)).unique_keywords

\* _add_relevance_scores(seed, keywords): a new record for each keyword,
\* in the order of the list, with the score the relevance collaborator
\* gave that keyword.  batch_calculate_relevance returns a score for each
\* keyword of its batch, so the batches do not show in the result.
add_relevance_scores(keywords, scores) ==
    [k \in 1..Len(keywords) |->
        [keyword |-> as_str(keywords[k]),
         relevance_score |-> scores[keywords[k]]]]

\* Keywords as the sources deliver them.  The LLM expansion strips and
\* lowercases what it parsed from JSON and lowercases what it extracted
\* from text; the SERP suggestions are lowercased and lose the question
\* marks at their ends; trends queries and the seed come as they are.
LlmKeywords ==
    { <<"j", "o", "b", "s">>,
      <<"j", "o", "b", "s", " ">>,
      <<"s", "e", "o">>,
      <<"s", "e", "o", " ", "t", "i", "p", "s">> }

SerpKeywords ==
    { << >>,
      <<"s", "e", "o", " ">>,
      <<"j", "o", "b", "s", " ">>,
      <<"s", "e", "o", " ", "t", "i", "p", "s">> }

TrendsKeywords ==
    { <<" ">>,
      <<"J", "o", "b", "s">>,
      <<"\t", "S", "E", "O", " ", "t", "i", "p", "s", "\n">> }

SeedKeywords ==
    { <<"J", "o", "b", "s">>,
      <<"s", "e", "o", " ">>,
      <<"S", "E", "O", " ", "t", "i", "p", "s">> }

\* The scores of the relevance collaborator, in hundredths.
RelevanceScores == {30, 50, 92}

InitMerge ==
    /\ env = EmptyDict
    /\ scorer = [status |-> "new"]
    /\ heap = << >>
    /\ keywords_data = << >>
    /\ \E llm_kw \in UNION {[1..n -> LlmKeywords] : n \in 0..MaxSuggestions},
          serp_kw \in UNION {[1..n -> SerpKeywords] : n \in 0..1},
          trends_kw \in UNION {[1..n -> TrendsKeywords] : n \in 0..1},
          seed_kw \in SeedKeywords :
          call = merge_frame(llm_kw, serp_kw, trends_kw, seed_kw)

\* A turn of the loop of _merge_keywords.
MergeKeywordsVisit ==
    /\ call.op = "_merge_keywords"
    /\ call.status = "running"
    /\ call.i < Len(call.all_keywords)
    /\ call' = merge_visit(call, call.all_keywords[call.i + 1])
    /\ UNCHANGED <<env, scorer, heap, keywords_data>>

\* return unique_keywords
MergeKeywordsReturn ==
    /\ call.op = "_merge_keywords"
    /\ call.status = "running"
    /\ call.i = Len(call.all_keywords)
    /\ call' = [call EXCEPT !.status = "returned",
                            !.ret = call.unique_keywords]
    /\ UNCHANGED <<env, scorer, heap, keywords_data>>

\* keywords_with_relevance = _add_relevance_scores(seed, all_keywords)
AddRelevanceScores ==
    /\ call.op = "_merge_keywords"
    /\ call.status = "returned"
    /\ \E scores \in [{call.ret[k] : k \in 1..Len(call.ret)} -> RelevanceScores] :
          /\ heap' = add_relevance_scores(call.ret, scores)
          /\ keywords_data' = [k \in 1..Len(call.ret) |-> k]
          /\ call' = [op |-> "_add_relevance_scores", keywords |-> call.ret,
                      all_keywords |-> call.all_keywords]
    /\ UNCHANGED <<env, scorer>>

NextMerge == MergeKeywordsVisit \/ MergeKeywordsReturn \/ AddRelevanceScores

SpecMerge == InitMerge /\ [][NextMerge]_vars

---------------------------------------------------------------------------
(* Two threads that each call rank_keywords of one shared scorer on a     *)
(* list of their own, statement by statement.  call.threads[t] is the     *)
(* frame of thread t's call: its list, top_n, the statement it is at      *)
(* (pc), its loop index (kw) and its locals; call.heap0 is the heap       *)
(* before the calls, and call.interleaved tells whether a thread has      *)
(* taken a step between two steps of the other's call.                    *)

Threads == {1, 2}

\* The lists a thread passes, and the values of top_n.
ThreadPools == UNION {[1..n -> PoolRecords] : n \in 1..2}

ThreadTopNs == {1, 2}

\* The frame of rank_keywords(list, top_n) at its first statement.
thread_frame(list, top_n) ==
    [keywords_data |-> list, top_n |-> top_n,
     pc |-> IF Len(list) = 0 THEN "sort" ELSE "score", kw |-> 1,
     sorted_keywords |-> << >>, ret |-> << >>]

\* kw_data['opportunity_score'] = self.calculate_opportunity_score(kw_data)
thread_score(self, h, frame) ==
    LET ref == frame.keywords_data[frame.kw]
    IN  [heap |-> [h EXCEPT ![ref] =
                      Put(@, "opportunity_score",
                          calculate_opportunity_score(self, @))],
         frame |-> [frame EXCEPT !.pc = "potential"]]

\* kw_data['ranking_potential'] = self.estimate_ranking_potential(kw_data)
\* and the step of the loop to the next record or to the sort.
thread_potential(h, frame) ==
    LET ref == frame.keywords_data[frame.kw]
    IN  [heap |-> [h EXCEPT ![ref] =
                      Put(@, "ranking_potential",
                          estimate_ranking_potential(@))],
         frame |-> [frame EXCEPT
                       !.kw = IF @ < Len(frame.keywords_data)
                              THEN @ + 1 ELSE 1,
                       !.pc = IF frame.kw < Len(frame.keywords_data)
                              THEN "score" ELSE "sort"]]

\* sorted_keywords = sorted(keywords_data, key=..., reverse=True)
thread_sort(h, frame) ==
    LET sorted_keywords == sorted_reverse(h, frame.keywords_data)
    IN  [heap |-> h,
         frame |-> [frame EXCEPT
                       !.sorted_keywords = sorted_keywords,
                       !.pc = IF Len(slice_to(sorted_keywords,
                                              frame.top_n)) = 0
                              THEN "return" ELSE "rank"]]

\* A ranking loop written with enumerate(...) without its start of 1.
thread_rank_from_zero(h, frame) ==
    LET retained == slice_to(frame.sorted_keywords, frame.top_n)
    IN  [heap |-> [h EXCEPT ![retained[frame.kw]] =
                      Put(@, "rank", frame.kw - 1)],
         frame |-> [frame EXCEPT
                       !.kw = IF @ < Len(retained) THEN @ + 1 ELSE 1,
                       !.pc = IF frame.kw < Len(retained)
                              THEN "rank" ELSE "return"]]

\* kw_data['rank'] = i, and the step of the loop.
thread_rank(h, frame) ==
    LET retained == slice_to(frame.sorted_keywords, frame.top_n)
    IN  [heap |-> [h EXCEPT ![retained[frame.kw]] = Put(@, "rank", frame.kw)],
         frame |-> [frame EXCEPT
                       !.kw = IF @ < Len(retained) THEN @ + 1 ELSE 1,
                       !.pc = IF frame.kw < Len(retained)
                              THEN "rank" ELSE "return"]]

\* return sorted_keywords[:top_n]
thread_return(h, frame) ==
    [heap |-> h,
     frame |-> [frame EXCEPT
                   !.ret = slice_to(frame.sorted_keywords, frame.top_n),
                   !.pc = "done"]]

\* Thread t is inside its call: it has taken a step and has not returned.
InCall(t) ==
    /\ call.threads[t].pc # "done"
    /\ call.threads[t] # thread_frame(call.threads[t].keywords_data,
                                      call.threads[t].top_n)

\* The state after a step of thread t that leaves the heap and the frame
\* of result.
ThreadStep(t, result) ==
    /\ heap' = result.heap
    /\ call' = [call EXCEPT
                   !.threads[t] = result.frame,
                   !.interleaved = @ \/ \E u \in Threads \ {t} : InCall(u)]
    /\ UNCHANGED <<env, scorer, keywords_data>>

InitThreads ==
    /\ env \in RankingEnvs
    /\ scorer = KeywordScorer_init(env)
    /\ \E list1 \in ThreadPools, list2 \in ThreadPools,
          n1 \in ThreadTopNs, n2 \in ThreadTopNs :
          /\ heap = list1 \o list2
          /\ keywords_data = [i \in 1..(Len(list1) + Len(list2)) |-> i]
          /\ call = [op |-> "threads", heap0 |-> list1 \o list2,
                     interleaved |-> FALSE,
                     threads |->
                        <<thread_frame([i \in 1..Len(list1) |-> i], n1),
                          thread_frame([i \in 1..Len(list2) |->
                                            Len(list1) + i], n2)>>]

ThreadScores ==
    \E t \in Threads :
        /\ call.threads[t].pc = "score"
        /\ ThreadStep(t, thread_score(scorer, heap, call.threads[t]))

ThreadEstimates ==
    \E t \in Threads :
        /\ call.threads[t].pc = "potential"
        /\ ThreadStep(t, thread_potential(heap, call.threads[t]))

ThreadSorts ==
    \E t \in Threads :
        /\ call.threads[t].pc = "sort"
        /\ ThreadStep(t, thread_sort(heap, call.threads[t]))

ThreadRanks ==
    \E t \in Threads :
        /\ call.threads[t].pc = "rank"
        /\ ThreadStep(t, thread_rank(heap, call.threads[t]))

ThreadReturns ==
    \E t \in Threads :
        /\ call.threads[t].pc = "return"
        /\ ThreadStep(t, thread_return(heap, call.threads[t]))

NextThreads ==
    \/ ThreadScores
    \/ ThreadEstimates
    \/ ThreadSorts
    \/ ThreadRanks
    \/ ThreadReturns

SpecThreads == InitThreads /\ [][NextThreads]_vars

---------------------------------------------------------------------------
(* The clients of the research workflow: competition analysis             *)
(* (src/src/clients/serp_client.py), trends                               *)
(* (src/src/clients/trends_client.py) and keyword expansion               *)
(* (src/src/clients/groq_client.py).  A call of an external API is an     *)
(* outcome drawn from a set: what it returned, or that it raised.         *)

high_authority_domains ==
    { <<"w", "i", "k", "i", "p", "e", "d", "i", "a", ".", "o", "r", "g">>,
      <<"a", "m", "a", "z", "o", "n", ".", "c", "o", "m">>,
      <<"l", "i", "n", "k", "e", "d", "i", "n", ".", "c", "o", "m">>,
      <<"i", "n", "d", "e", "e", "d", ".", "c", "o", "m">>,
      <<"g", "l", "a", "s", "s", "d", "o", "o", "r", ".", "c", "o", "m">>,
      <<"f", "o", "r", "b", "e", "s", ".", "c", "o", "m">>,
      <<"n", "y", "t", "i", "m", "e", "s", ".", "c", "o", "m">>,
      <<"m", "e", "d", "i", "u", "m", ".", "c", "o", "m">>,
      <<"r", "e", "d", "d", "i", "t", ".", "c", "o", "m">>,
      <<"y", "o", "u", "t", "u", "b", "e", ".", "c", "o", "m">>,
      <<"s", "t", "a", "c", "k", "o", "v", "e", "r", "f", "l", "o", "w", ".", "c", "o", "m">>,
      <<"g", "i", "t", "h", "u", "b", ".", "c", "o", "m">>,
      <<"q", "u", "o", "r", "a", ".", "c", "o", "m">>,
      <<"b", "b", "c", ".", "c", "o", "m">>,
      <<"c", "n", "n", ".", "c", "o", "m">> }

\* sub in s, for two strings.
contains(s, sub) ==
    \E k \in 1..(Len(s) - Len(sub) + 1) : SubSeq(s, k, k + Len(sub) - 1) = sub

\* s.strip('?')
strip_question_marks(s) ==
    LET inner == {k \in 1..Len(s) : s[k] # "?"}
    IN  IF inner = {} THEN << >>
        ELSE SubSeq(s, CHOOSE k \in inner : \A j \in inner : k <= j,
                       CHOOSE k \in inner : \A j \in inner : k >= j)

\* list[:n] for a non-negative n.
first_n(list, n) == SubSeq(list, 1, IF n > Len(list) THEN Len(list) ELSE n)

\* What the search API returns in the workflow: an error response, and a
\* result page with related searches and a related question.
WorkflowResponses ==
    { [search_metadata |-> "Error", error |-> "Invalid API key"],
      [search_metadata |-> "Success",
       search_information |-> [total_results |-> 250000000],
       organic_results |-> <<[domain |-> <<"e", "n", ".", "w", "i", "k", "i", "p", "e", "d", "i", "a", ".", "o", "r", "g">>],
                             [displayed_link |-> <<"w", "w", "w", ".", "R", "e", "d", "d", "i", "t", ".", "c", "o", "m">>],
                             [domain |-> <<"e", "x", "a", "m", "p", "l", "e", ".", "c", "o", "m">>]>>,
       answer_box |-> "box", top_ads |-> "ads",
       related_searches |-> <<[query |-> <<"S", "E", "O", " ", "T", "i", "p", "s">>],
                              [link |-> "https://www.google.com/search"]>>,
       related_questions |-> <<[question |-> <<"W", "h", "a", "t", " ", "i", "s", " ", "S", "E", "O", "?">>]>>] }

\* The outcomes of an attempt in the workflow, and the outcomes of the
\* attempts of one call of search.
WorkflowOutcomes ==
    [ok : {TRUE}, results : WorkflowResponses, error : {"none"}]
        \cup [ok : {FALSE}, results : {EmptyDict}, error : {"Timeout"}]

SearchFates == [1..max_retries -> WorkflowOutcomes]

\* get_related_searches(keyword): the queries of the related searches, and
\* the empty list when the search raised.
get_related_searches(keyword, outcomes) ==
    LET run == search(keyword, outcomes)
        related == Get(run.ret, "related_searches", << >>)
        with_query == SelectSeq(related, LAMBDA item : "query" \in DOMAIN item)
    IN  IF run.status = "raised" THEN << >>
        ELSE [k \in 1..Len(with_query) |-> with_query[k].query]

\* get_people_also_ask(keyword)
get_people_also_ask(keyword, outcomes) ==
    LET run == search(keyword, outcomes)
        paa == Get(run.ret, "related_questions", << >>)
        with_question ==
            SelectSeq(paa, LAMBDA item : "question" \in DOMAIN item)
    IN  IF run.status = "raised" THEN << >>
        ELSE [k \in 1..Len(with_question) |-> with_question[k].question]

\* _estimate_first_page_probability(analysis), in hundredths.
estimate_first_page_probability(analysis) ==
    LET comp_score == analysis.competition_score
        base_prob == IF comp_score < 20 THEN 85
                     ELSE IF comp_score < 40 THEN 65
                     ELSE IF comp_score < 60 THEN 45
                     ELSE IF comp_score < 80 THEN 25
                     ELSE 10
        brands == analysis.big_brands_count * 8
        brand_penalty == IF brands < 30 THEN brands ELSE 30
        features == analysis.serp_features_count * 5
        feature_penalty == IF features < 20 THEN features ELSE 20
        final_probability == base_prob - brand_penalty - feature_penalty
    IN  IF final_probability > 5 THEN final_probability ELSE 5

\* The analysis analyze_competition computes from the response of a search
\* that returned.
competition_analysis(keyword, results) ==
    LET organic_results == first_n(Get(results, "organic_results", << >>), 10)
        domain_of(result) ==
            Get(result, "domain", Get(result, "displayed_link", << >>))
        domains == [k \in 1..Len(organic_results) |->
                       domain_of(organic_results[k])]
        big_brands_count ==
            Cardinality({k \in 1..Len(domains) :
                            \E auth_domain \in high_authority_domains :
                                contains(lower(domains[k]), auth_domain)})
        has_featured_snippet ==
            "featured_snippet" \in DOMAIN results
                \/ "answer_box" \in DOMAIN results
        has_knowledge_graph == "knowledge_graph" \in DOMAIN results
        has_ads == "ads" \in DOMAIN results \/ "top_ads" \in DOMAIN results
        flag(b) == IF b THEN 1 ELSE 0
        serp_features_count ==
            flag(has_featured_snippet) + flag(has_knowledge_graph)
                + flag(has_ads)
        total_results ==
            Get(Get(results, "search_information", EmptyDict),
                "total_results", 0)
        brand_points == IF big_brands_count * 10 < 50
                        THEN big_brands_count * 10 ELSE 50
        results_points == IF total_results > 100000000 THEN 20
                          ELSE IF total_results > 10000000 THEN 15
                          ELSE IF total_results > 1000000 THEN 10
                          ELSE IF total_results > 100000 THEN 5
                          ELSE 0
        competition_score ==
            brand_points + 10 * serp_features_count + results_points
        analysis ==
            [keyword |-> keyword,
             total_results |-> total_results,
             organic_results_count |-> Len(organic_results),
             big_brands_count |-> big_brands_count,
             has_featured_snippet |-> has_featured_snippet,
             has_knowledge_graph |-> has_knowledge_graph,
             has_ads |-> has_ads,
             serp_features_count |-> serp_features_count,
             domains |-> domains,
             competition_score |-> IF competition_score < 100
                                   THEN competition_score ELSE 100,
             first_page_probability |-> 0]
    IN  [analysis EXCEPT
            !.first_page_probability = estimate_first_page_probability(analysis)]

\* What analyze_competition returns when the search raised: a medium
\* competition and a first page probability of 0.3.
competition_fallback(keyword, error) ==
    [keyword |-> keyword, error |-> error, competition_score |-> 50,
     first_page_probability |-> 30]

\* analyze_competition(keyword) under the outcomes of the attempts of its
\* search: it returns in every case.
analyze_competition(keyword, outcomes) ==
    LET run == search(keyword, outcomes)
    IN  IF run.status = "raised"
        THEN competition_fallback(keyword, run.error)
        ELSE competition_analysis(keyword, run.ret)

\* The data frames of the trends API, by the figures the client takes
\* from them: none when the frame is empty, else the mean, the means of
\* the first and the last three rows, the maximum and the minimum.
InterestFrames ==
    { [empty |-> TRUE, mean |-> 0, head |-> 0, tail |-> 0,
       max |-> 0, min |-> 0],
      [empty |-> FALSE, mean |-> 80, head |-> 50, tail |-> 90,
       max |-> 100, min |-> 40] }

TrendsOutcomes ==
    [ok : {TRUE}, interest_df : InterestFrames]
        \cup {[ok |-> FALSE,
               interest_df |-> [empty |-> TRUE, mean |-> 0, head |-> 0,
                                tail |-> 0, max |-> 0, min |-> 0]]}

TrendsFates == [1..max_retries -> TrendsOutcomes]

\* What get_interest_over_time returns when trends is off.
interest_disabled == [average_interest |-> 50, trend |-> "stable"]

\* A fallback that reports a keyword without data.
interest_fallback_no_data == [average_interest |-> 0, trend |-> "no_data"]

\* What get_interest_over_time returns when its last attempt raised, or
\* its loop ran out.
interest_fallback == [average_interest |-> 50, trend |-> "stable"]

\* What an attempt returns from a data frame.
interest_of(interest_df) ==
    IF interest_df.empty
    THEN [average_interest |-> 0, trend |-> "no_data"]
    ELSE [average_interest |-> interest_df.mean,
          trend |-> IF 10 * interest_df.tail > 12 * interest_df.head
                    THEN "rising"
                    ELSE IF 10 * interest_df.tail < 8 * interest_df.head
                    THEN "declining"
                    ELSE "stable",
          max_interest |-> interest_df.max,
          min_interest |-> interest_df.min]

\* The loop of get_interest_over_time from the given attempt on
\* (TrendsClient has max_retries = 3 as well).
RECURSIVE interest_from(_, _)
interest_from(outcomes, attempt) ==
    IF attempt >= max_retries THEN interest_fallback
    ELSE IF outcomes[attempt + 1].ok
         THEN interest_of(outcomes[attempt + 1].interest_df)
         ELSE IF attempt < max_retries - 1
              THEN interest_from(outcomes, attempt + 1)
              ELSE interest_fallback

\* get_interest_over_time(keyword)
get_interest_over_time(enabled, outcomes) ==
    IF ~enabled THEN interest_disabled ELSE interest_from(outcomes, 0)

\* len(keyword.split()): the number of places where a word starts.
word_count(keyword) ==
    Cardinality({k \in 1..Len(keyword) :
                    /\ keyword[k] \notin Whitespace
                    /\ (k = 1 \/ keyword[k - 1] \in Whitespace)})

\* _estimate_by_length(keyword)
estimate_by_length(keyword) ==
    IF word_count(keyword) <= 2 THEN 5000
    ELSE IF word_count(keyword) = 3 THEN 2000
    ELSE IF word_count(keyword) = 4 THEN 1000
    ELSE 500

\* estimate_search_volume(keyword), base_volume = 1000:
\* int(1000 * (avg_interest / 50.0)) is 20 * avg_interest for every
\* interest from 1 to 100.
estimate_search_volume(keyword, enabled, outcomes) ==
    IF ~enabled THEN estimate_by_length(keyword)
    ELSE LET avg_interest ==
                 get_interest_over_time(enabled, outcomes).average_interest
             estimated_volume == IF avg_interest = 0 THEN 1000 \div 10
                                 ELSE 20 * avg_interest
         IN  IF estimated_volume > 10 THEN estimated_volume ELSE 10

\* What an attempt of the chat completion gives generate_keyword_variations:
\* it raises, or its content parses to a JSON list of the given strings, or
\* to JSON that is no list, or it is no JSON and the extraction from its
\* text gives the given keywords.
LlmOutcomes ==
    { [kind |-> "raises", keywords |-> << >>],
      [kind |-> "json_other", keywords |-> << >>],
      [kind |-> "json_list",
       keywords |-> << <<" ", "W", "h", "a", "t", " ", "i", "s", " ", "S", "E", "O", " ">>, <<"s", "e", "o", " ", "t", "i", "p", "s">>, << >>, <<"w", "h", "a", "t", " ", "i", "s", " ", "s", "e", "o">> >>],
      [kind |-> "text", keywords |-> << <<"s", "e", "o", " ", "t", "i", "p", "s">>, <<"w", "h", "a", "t", " ", "i", "s", " ", "s", "e", "o", " ">> >>] }

LlmFates == [1..max_retries -> LlmOutcomes]

expansion_count == 30

\* The list an attempt returns from a parsed JSON list: stripped,
\* lowercased, without the empty strings and the duplicates.
RECURSIVE unique_from(_, _, _)
unique_from(cleaned, k, unique_keywords) ==
    IF k > Len(cleaned) THEN unique_keywords
    ELSE unique_from(cleaned, k + 1,
                     IF \E j \in 1..Len(unique_keywords) :
                            unique_keywords[j] = cleaned[k]
                     THEN unique_keywords
                     ELSE Append(unique_keywords, cleaned[k]))

cleaned_variations(keywords) ==
    LET kept == SelectSeq(keywords, LAMBDA kw : strip(kw) # << >>)
        cleaned == [k \in 1..Len(kept) |-> lower(strip(kept[k]))]
    IN  first_n(unique_from(cleaned, 1, << >>), expansion_count)

\* The loop of generate_keyword_variations from the given attempt on: the
\* list it returns, or the error it raises.  (GroqClient has
\* max_retries = 3 as well.)
RECURSIVE variations_from(_, _)
variations_from(outcomes, attempt) ==
    IF attempt >= max_retries THEN [raised |-> FALSE, ret |-> << >>]
    ELSE LET outcome == outcomes[attempt + 1]
         IN  CASE outcome.kind = "json_list" ->
                    [raised |-> FALSE,
                     ret |-> cleaned_variations(outcome.keywords)]
               [] outcome.kind = "text" ->
                    [raised |-> FALSE,
                     ret |-> first_n(outcome.keywords, expansion_count)]
               [] outcome.kind = "json_other" ->
                    variations_from(outcomes, attempt + 1)
               [] outcome.kind = "raises" ->
                    IF attempt < max_retries - 1
                    THEN variations_from(outcomes, attempt + 1)
                    ELSE [raised |-> TRUE, ret |-> << >>]

\* generate_keyword_variations(seed_keyword, count)
generate_keyword_variations(outcomes) == variations_from(outcomes, 0)

---------------------------------------------------------------------------
(* SEOKeywordAgent.research_keywords (src/main.py), step by step.  call   *)
(* is the frame of the call: the step it is at (pc), the lists of steps 1 *)
(* to 4, the index of the loops of steps 6 and 7 (kw), and, for the       *)
(* properties, the records whose competition lookup (serp_failed) and     *)
(* whose trends lookups (trends_failed) raised at every attempt.          *)
(* keywords_data is the list of records the steps hand on.                *)

max_keywords == 50

min_relevance == 50

\* What the related-queries call of the trends API gives: it raises, or
\* it returns the queries.
RelatedQueriesOutcomes ==
    { [ok |-> FALSE, queries |-> << >>],
      [ok |-> TRUE, queries |-> << >>],
      [ok |-> TRUE,
       queries |-> << <<"s", "e", "o", " ", "t", "i", "p", "s", " ">> >>] }

\* get_related_queries(keyword)
get_related_queries(enabled, outcome) ==
    IF ~enabled \/ ~outcome.ok THEN << >> ELSE outcome.queries

\* _get_serp_suggestions(seed_keyword)
get_serp_suggestions(seed_keyword, related_outcomes, paa_outcomes) ==
    LET all_suggestions ==
            get_related_searches(seed_keyword, related_outcomes)
                \o get_people_also_ask(seed_keyword, paa_outcomes)
    IN  [k \in 1..Len(all_suggestions) |->
            strip_question_marks(lower(all_suggestions[k]))]

\* The scores batch_calculate_relevance gives the keywords: 0.5 each when
\* the LLM is unreachable, for the batch call and for the call for each
\* keyword after it; else the scores the LLM gave.
relevance_scores(keywords, reachable) ==
    [kw \in {keywords[k] : k \in 1..Len(keywords)} |->
        IF ~reachable THEN 50
        ELSE IF Len(kw) > 8 THEN 30 ELSE 92]

\* The characters of the keyword of a record.
chars_of(keywords, keyword) ==
    CHOOSE kw \in {keywords[k] : k \in 1..Len(keywords)} :
        as_str(kw) = keyword

\* The record after the try block of _analyze_competition has updated it
\* from the analysis.
competition_update(kw_data, analysis) ==
    [competition_score |-> Get(analysis, "competition_score", 50),
     big_brands_count |-> Get(analysis, "big_brands_count", 0),
     has_featured_snippet |-> Get(analysis, "has_featured_snippet", FALSE),
     has_knowledge_graph |-> Get(analysis, "has_knowledge_graph", FALSE),
     has_ads |-> Get(analysis, "has_ads", FALSE),
     first_page_probability |-> Get(analysis, "first_page_probability", 50),
     total_results |-> Get(analysis, "total_results", 0),
     serp_features_count |-> Get(analysis, "serp_features_count", 0),
     top_domains |-> first_n(Get(analysis, "domains", << >>), 5)]
        @@ kw_data

\* The record after the try block of _estimate_volumes has stored the
\* volume and, with trends on, the trend and the average interest.
volume_update(kw_data, volume, enabled, interest_data) ==
    IF enabled
    THEN [estimated_volume |-> volume,
          trend |-> Get(interest_data, "trend", "stable"),
          average_interest |-> Get(interest_data, "average_interest", 50)]
             @@ kw_data
    ELSE Put(kw_data, "estimated_volume", volume)

\* The heap after step 9 has stored the reasoning of list[k], list[k+1], ...
RECURSIVE add_reasoning_from(_, _, _)
add_reasoning_from(h, list, k) ==
    IF k > Len(list) THEN h
    ELSE add_reasoning_from(
             [h EXCEPT ![list[k]] = Put(@, "reasoning", generate_reasoning(@))],
             list, k + 1)

\* The frame at the start of research_keywords(seed_keyword).
research_frame(seed_keyword, enabled) ==
    [op |-> "research_keywords", pc |-> "step1",
     seed_keyword |-> seed_keyword, trends_enabled |-> enabled,
     llm_keywords |-> << >>, serp_keywords |-> << >>,
     trends_keywords |-> << >>, all_keywords |-> << >>, kw |-> 1,
     serp_failed |-> {}, trends_failed |-> {}, top_keywords |-> << >>]

\* Every attempt of the given outcomes raised.
AllRaised(outcomes) == \A k \in 1..Len(outcomes) : ~outcomes[k].ok

InitResearch ==
    /\ env = EmptyDict
    /\ scorer = KeywordScorer_init(env)
    /\ heap = << >>
    /\ keywords_data = << >>
    /\ \E enabled \in BOOLEAN :
          call = research_frame(<<"S", "E", "O", " ", "t", "i", "p", "s">>,
                                enabled)

\* Step 1: llm_keywords = self._expand_keywords_llm(seed_keyword).  The
\* error generate_keyword_variations raises is caught nowhere in
\* research_keywords: the call ends with it.
Step1ExpandKeywords ==
    /\ call.op = "research_keywords" /\ call.pc = "step1"
    /\ \E outcomes \in LlmFates :
          LET variations == generate_keyword_variations(outcomes)
          IN  call' = IF variations.raised
                      THEN [call EXCEPT !.pc = "raised"]
                      ELSE [call EXCEPT !.pc = "step2",
                                        !.llm_keywords = variations.ret]
    /\ UNCHANGED <<env, scorer, heap, keywords_data>>

\* Step 2: serp_keywords = self._get_serp_suggestions(seed_keyword)
Step2SerpSuggestions ==
    /\ call.op = "research_keywords" /\ call.pc = "step2"
    /\ \E related_outcomes \in SearchFates, paa_outcomes \in SearchFates :
          call' = [call EXCEPT
                      !.pc = "step3",
                      !.serp_keywords =
                          get_serp_suggestions(as_str(call.seed_keyword),
                                               related_outcomes,
                                               paa_outcomes)]
    /\ UNCHANGED <<env, scorer, heap, keywords_data>>

\* Step 3: trends_keywords = self._get_trends_suggestions(seed_keyword)
Step3TrendsSuggestions ==
    /\ call.op = "research_keywords" /\ call.pc = "step3"
    /\ \E outcome \in RelatedQueriesOutcomes :
          call' = [call EXCEPT
                      !.pc = "step4",
                      !.trends_keywords =
                          get_related_queries(call.trends_enabled, outcome)]
    /\ UNCHANGED <<env, scorer, heap, keywords_data>>

\* Step 4: all_keywords = self._merge_keywords(...)
Step4MergeKeywords ==
    /\ call.op = "research_keywords" /\ call.pc = "step4"
    /\ call' = [call EXCEPT
                   !.pc = "step5",
                   !.all_keywords =
                       merge_keywords(call.llm_keywords, call.serp_keywords,
                                      call.trends_keywords,
                                      call.seed_keyword)]
    /\ UNCHANGED <<env, scorer, heap, keywords_data>>

\* Step 5: the records with their relevance scores, and the filter by
\* min_relevance.
Step5RelevanceScores ==
    /\ call.op = "research_keywords" /\ call.pc = "step5"
    /\ \E reachable \in BOOLEAN :
          LET keywords_with_relevance ==
                  add_relevance_scores(
                      call.all_keywords,
                      relevance_scores(call.all_keywords, reachable))
              filtered_keywords ==
                  SelectSeq([k \in 1..Len(keywords_with_relevance) |-> k],
                            LAMBDA k : keywords_with_relevance[k].relevance_score
                                           >= min_relevance)
          IN  /\ heap' = keywords_with_relevance
              /\ keywords_data' = filtered_keywords
              /\ call' = [call EXCEPT
                             !.pc = IF Len(filtered_keywords) = 0
                                    THEN "step8" ELSE "step6"]
    /\ UNCHANGED <<env, scorer>>

\* Step 6, one turn of the loop of _analyze_competition.
\* analyze_competition returns in every case, so the except block of the
\* loop is not entered.
Step6AnalyzeCompetition ==
    /\ call.op = "research_keywords" /\ call.pc = "step6"
    /\ \E outcomes \in SearchFates :
          LET ref == keywords_data[call.kw]
              analysis == analyze_competition(heap[ref].keyword, outcomes)
              last == call.kw = Len(keywords_data)
          IN  /\ heap' = [heap EXCEPT ![ref] = competition_update(@, analysis)]
              /\ call' = [call EXCEPT
                             !.serp_failed = IF AllRaised(outcomes)
                                             THEN @ \cup {ref} ELSE @,
                             !.kw = IF last THEN 1 ELSE @ + 1,
                             !.pc = IF last THEN "step7" ELSE "step6"]
    /\ UNCHANGED <<env, scorer, keywords_data>>

\* Step 7, one turn of the loop of _estimate_volumes: the volume, and with
\* trends on a second lookup for the trend.  Neither call raises, so the
\* except block of the loop is not entered.
Step7EstimateVolumes ==
    /\ call.op = "research_keywords" /\ call.pc = "step7"
    /\ \E volume_outcomes \in TrendsFates, trend_outcomes \in TrendsFates :
          LET ref == keywords_data[call.kw]
              enabled == call.trends_enabled
              keyword == chars_of(call.all_keywords, heap[ref].keyword)
              volume == estimate_search_volume(keyword, enabled,
                                               volume_outcomes)
              interest_data == get_interest_over_time(enabled, trend_outcomes)
              last == call.kw = Len(keywords_data)
          IN  /\ heap' = [heap EXCEPT
                             ![ref] = volume_update(@, volume, enabled,
                                                    interest_data)]
              /\ call' = [call EXCEPT
                             !.trends_failed =
                                 IF /\ enabled
                                    /\ AllRaised(volume_outcomes)
                                    /\ AllRaised(trend_outcomes)
                                 THEN @ \cup {ref} ELSE @,
                             !.kw = IF last THEN 1 ELSE @ + 1,
                             !.pc = IF last THEN "step8" ELSE "step7"]
    /\ UNCHANGED <<env, scorer, keywords_data>>

\* Step 8: top_keywords = self.scorer.rank_keywords(keywords_with_volumes,
\* self.max_keywords)
Step8RankKeywords ==
    /\ call.op = "research_keywords" /\ call.pc = "step8"
    /\ LET result == rank_keywords(scorer, heap, keywords_data, max_keywords)
       IN  /\ heap' = result.heap
           /\ call' = [call EXCEPT !.pc = "step9",
                                   !.top_keywords = result.ret]
    /\ UNCHANGED <<env, scorer, keywords_data>>

\* Step 9 and the return of the results.
Step9GenerateReasoning ==
    /\ call.op = "research_keywords" /\ call.pc = "step9"
    /\ heap' = add_reasoning_from(heap, call.top_keywords, 1)
    /\ call' = [call EXCEPT !.pc = "returned"]
    /\ UNCHANGED <<env, scorer, keywords_data>>

NextResearch ==
    \/ Step1ExpandKeywords
    \/ Step2SerpSuggestions
    \/ Step3TrendsSuggestions
    \/ Step4MergeKeywords
    \/ Step5RelevanceScores
    \/ Step6AnalyzeCompetition
    \/ Step7EstimateVolumes
    \/ Step8RankKeywords
    \/ Step9GenerateReasoning

SpecResearch == InitResearch /\ [][NextResearch]_vars

---------------------------------------------------------------------------
(* Properties of construction and of the opportunity score. *)

\* volume_weight + competition_weight + relevance_weight of a scorer.
WeightSum(self) ==
    RatAdd(RatAdd(self.volume_weight, self.competition_weight),
           self.relevance_weight)

\* The sum of the three weights as configured.
ConfiguredSum(e) == WeightSum(configured_weights(e))

\* The distance of a weight sum from 1.0 exceeds the tolerance.
OutOfTolerance(sum) == RatGT(RatAbs(RatSub(sum, One)), Tolerance)

\* C1: for every valid record and every scorer constructed from
\* non-negative configured weights, calculate_opportunity_score returns a
\* value between 0 and 100 (0 and 10000 hundredths).
C1_ScoreWithinRange ==
    call.op = "calculate_opportunity_score"
        => (0 <= call.ret /\ call.ret <= 10000)

C3_ConstructionNeverDividesByZero ==
    scorer.status # "ZeroDivisionError"

---------------------------------------------------------------------------
(* Properties of rank_keywords. *)

Min(a, b) == IF a < b THEN a ELSE b
Max(a, b) == IF a > b THEN a ELSE b

\* The stored opportunity score of the record object i.
Score(i) == heap[i]["opportunity_score"]

\* The position of the record object i in the caller's list.
InputPos(i) == CHOOSE k \in 1..Len(keywords_data) : keywords_data[k] = i

\* The record objects of the caller's list that the last call left out.
LeftOut ==
    {keywords_data[k] : k \in 1..Len(keywords_data)}
        \ {call.ret[k] : k \in 1..Len(call.ret)}

\* The returned records carry the ranks 1, 2, ... in output order.
DenseRanks == \A k \in 1..Len(call.ret) : heap[call.ret[k]]["rank"] = k

\* C4 as claimed: rank_keywords returns exactly min(top_n, len(records))
\* records for every integer top_n, 0 and negative values included, ranked
\* 1, 2, ..., count in output order.
C4_ReturnsMinOfTopNAndPool ==
    call.op = "rank_keywords" =>
        /\ Len(call.ret) = Min(call.top_n, Len(keywords_data))
        /\ DenseRanks

\* C4 as amended: for top_n >= 0 rank_keywords returns exactly
\* min(top_n, len(records)) records; for top_n < 0 it returns
\* max(len(records) + top_n, 0) records, all but the last -top_n; in both
\* cases the returned records are ranked 1, 2, ..., count in output order.
C4_ReturnCount ==
    call.op = "rank_keywords" =>
        /\ Len(call.ret) =
              IF call.top_n >= 0
              THEN Min(call.top_n, Len(keywords_data))
              ELSE Max(Len(keywords_data) + call.top_n, 0)
        /\ DenseRanks

\* A call with a negative top_n that returned ranked records.
C4_Witness ==
    /\ call.op = "rank_keywords"
    /\ call.top_n < 0
    /\ Len(call.ret) > 0

\* C5: in the returned sequence every adjacent pair is in descending order
\* of opportunity_score, and no record left out has a score strictly
\* greater than a returned record's.
C5_DescendingAndTopmost ==
    call.op = "rank_keywords" =>
        /\ \A k \in 1..(Len(call.ret) - 1) :
              Score(call.ret[k]) >= Score(call.ret[k + 1])
        /\ \A i \in LeftOut : \A k \in 1..Len(call.ret) :
              Score(i) <= Score(call.ret[k])

\* Two records returned in the reverse of their input order, the first with
\* the strictly greater score, and a record with a smaller score left out.
C5_Witness ==
    /\ call.op = "rank_keywords"
    /\ Len(call.ret) = 2
    /\ Score(call.ret[1]) > Score(call.ret[2])
    /\ InputPos(call.ret[1]) > InputPos(call.ret[2])
    /\ \E i \in LeftOut : Score(i) < Score(call.ret[2])

\* C6: two returned records with equal opportunity_score are in the same
\* relative order as in the input list, and of a returned and a left-out
\* record with equal scores the returned one is the earlier in the input.
C6_StableOrder ==
    call.op = "rank_keywords" =>
        /\ \A j, k \in 1..Len(call.ret) :
              (j < k /\ Score(call.ret[j]) = Score(call.ret[k]))
                  => InputPos(call.ret[j]) < InputPos(call.ret[k])
        /\ \A i \in LeftOut : \A k \in 1..Len(call.ret) :
              Score(i) = Score(call.ret[k]) => InputPos(call.ret[k]) < InputPos(i)

\* Two different records with equal scores returned, and a third record
\* with the same score cut off.
C6_Witness ==
    /\ call.op = "rank_keywords"
    /\ Len(call.ret) = 2
    /\ Score(call.ret[1]) = Score(call.ret[2])
    /\ Get(heap[call.ret[1]], "estimated_volume", 1000)
          # Get(heap[call.ret[2]], "estimated_volume", 1000)
    /\ \E i \in LeftOut : Score(i) = Score(call.ret[2])

---------------------------------------------------------------------------
(* Properties of the classification and of the score as a function. *)

\* The predicate of recommendation rule n on a record, a missing metric
\* read as the default of _generate_recommendation.
RuleHolds(n, d) ==
    LET competition == Get(d, "competition_score", 50)
        volume == Get(d, "estimated_volume", 1000)
        relevance == Get(d, "relevance_score", 50)
        opportunity == Get(d, "opportunity_score", 5000)
    IN  CASE n = 1 -> opportunity >= 7000 /\ competition < 40
          [] n = 2 -> competition < 30 /\ relevance > 70
          [] n = 3 -> volume > 5000 /\ competition > 70
          [] n = 4 -> competition < 30 /\ volume < 500
          [] n = 5 -> 4000 <= opportunity /\ opportunity < 7000
          [] n = 6 -> TRUE

RuleText(n) ==
    CASE n = 1 -> HighPriority
      [] n = 2 -> QuickWin
      [] n = 3 -> LongTermTarget
      [] n = 4 -> NicheOpportunity
      [] n = 5 -> ModerateOpportunity
      [] n = 6 -> LowPriority

\* C7: the recommendation is the text of the lowest-numbered rule whose
\* predicate holds, also when a later rule's predicate holds as well.
C7_FirstMatchingRule ==
    call.op = "estimate_ranking_potential" =>
        \E n \in 1..6 :
            /\ RuleHolds(n, call.arg)
            /\ \A m \in 1..(n - 1) : ~RuleHolds(m, call.arg)
            /\ call.ret.recommendation = RuleText(n)

\* A record on which rules 1, 2 and 4 all hold, answered by rule 1.
C7_Witness ==
    /\ call.op = "estimate_ranking_potential"
    /\ RuleHolds(1, call.arg)
    /\ RuleHolds(2, call.arg)
    /\ RuleHolds(4, call.arg)
    /\ call.ret.recommendation = HighPriority

\* C8: the difficulty category and its description follow the bands
\* competition < 30 Low, < 50 Medium-Low, < 70 Medium, < 85 Medium-High,
\* >= 85 High, so that 30, 50, 70 and 85 fall in the higher band.
C8_DifficultyBands ==
    call.op = "estimate_ranking_potential" =>
        LET c == Get(call.arg, "competition_score", 50)
            band == <<call.ret.difficulty_category,
                      call.ret.difficulty_description>>
        IN  /\ (0 <= c /\ c <= 29) <=>
                  band = <<"Low", "Easy to rank with quality content">>
            /\ (30 <= c /\ c <= 49) <=>
                  band = <<"Medium-Low",
                           "Good opportunity with moderate effort">>
            /\ (50 <= c /\ c <= 69) <=>
                  band = <<"Medium",
                           "Requires strong content and backlinks">>
            /\ (70 <= c /\ c <= 84) <=>
                  band = <<"Medium-High",
                           "Challenging, needs authority and optimization">>
            /\ (85 <= c /\ c <= 100) <=>
                  band = <<"High",
                           "Very difficult, dominated by major brands">>

\* A competition score on a boundary, classified in the higher band.
C8_Witness ==
    /\ call.op = "estimate_ranking_potential"
    /\ Get(call.arg, "competition_score", 50) = 85
    /\ call.ret.difficulty_category = "High"

\* C9: the opportunity rating is Excellent iff score >= 75, Good iff
\* 60 <= score < 75, Fair iff 45 <= score < 60, Poor iff score < 45, and
\* the ratings and difficulty categories are the nine enumerated words.
C9_OpportunityRating ==
    call.op = "estimate_ranking_potential" =>
        LET o == Get(call.arg, "opportunity_score", 5000)
            rating == call.ret.opportunity_rating
        IN  /\ rating = "Excellent" <=> o >= 7500
            /\ rating = "Good" <=> (6000 <= o /\ o < 7500)
            /\ rating = "Fair" <=> (4500 <= o /\ o < 6000)
            /\ rating = "Poor" <=> o < 4500
            /\ rating \in {"Excellent", "Good", "Fair", "Poor"}
            /\ call.ret.difficulty_category \in
                  {"Low", "Medium-Low", "Medium", "Medium-High", "High"}

\* A score on the threshold 75.00, rated Excellent.
C9_Witness ==
    /\ call.op = "estimate_ranking_potential"
    /\ Get(call.arg, "opportunity_score", 5000) = 7500
    /\ call.ret.opportunity_rating = "Excellent"

\* The score the scorer gives the record of the last call with its volume
\* replaced by v.
ScoreAtVolume(v) ==
    calculate_opportunity_score(scorer, Put(call.arg, "estimated_volume", v))

\* C10: with competition and relevance held fixed, a record with a volume
\* v2 >= v1 never scores lower than the record with v1.
C10_MonotoneInVolume ==
    (call.op = "calculate_opportunity_score"
        /\ "estimated_volume" \in DOMAIN call.arg) =>
        \A v2 \in Volumes :
            v2 >= call.arg["estimated_volume"] => ScoreAtVolume(v2) >= call.ret

\* A scored record whose score rises with a larger volume below the cap
\* and is the same for two volumes at and above the cap, under a positive
\* volume weight.
C10_Witness ==
    /\ call.op = "calculate_opportunity_score"
    /\ "estimated_volume" \in DOMAIN call.arg
    /\ call.arg["estimated_volume"] = 2400
    /\ scorer.volume_weight.n > 0
    /\ ScoreAtVolume(5000) > call.ret
    /\ ScoreAtVolume(1000000) > ScoreAtVolume(5000)
    /\ ScoreAtVolume(4000000) = ScoreAtVolume(1000000)

\* The score the scorer gives the record of the last call with its
\* competition score replaced by c.
ScoreAtCompetition(c) ==
    calculate_opportunity_score(scorer, Put(call.arg, "competition_score", c))

\* competition_weight * (c2 - c1) exceeds 0.01, one step of the rounding.
ExceedsOneHundredth(self, c1, c2) ==
    RatGT(Rat(self.competition_weight.n * (c2 - c1), self.competition_weight.d),
          Rat(1, 100))

\* C11 as claimed: with volume and relevance held fixed, for any two
\* competition scores c1 < c2 and any scorer built from non-negative
\* weights, the record with c2 scores strictly lower than the one with c1.
C11_StrictlyDecreasingInCompetition ==
    (call.op = "calculate_opportunity_score"
        /\ "competition_score" \in DOMAIN call.arg) =>
        \A c2 \in Competitions :
            c2 > call.arg["competition_score"]
                => ScoreAtCompetition(c2) < call.ret

\* C11 as amended: with volume and relevance held fixed and c1 < c2, the
\* record with c2 never scores higher than the one with c1; it scores
\* strictly lower when competition_weight * (c2 - c1) exceeds 0.01, and
\* the same when competition_weight is 0.
C11_NonIncreasingInCompetition ==
    (call.op = "calculate_opportunity_score"
        /\ "competition_score" \in DOMAIN call.arg) =>
        \A c2 \in Competitions :
            c2 > call.arg["competition_score"] =>
                /\ ScoreAtCompetition(c2) <= call.ret
                /\ ExceedsOneHundredth(scorer, call.arg["competition_score"], c2)
                      => ScoreAtCompetition(c2) < call.ret
                /\ scorer.competition_weight.n = 0
                      => ScoreAtCompetition(c2) = call.ret

\* A scored record under a positive competition weight whose score is the
\* same with the next greater competition score and strictly lower with a
\* competition score further up.
C11_Witness ==
    /\ call.op = "calculate_opportunity_score"
    /\ "competition_score" \in DOMAIN call.arg
    /\ call.arg["competition_score"] = 69
    /\ scorer.competition_weight.n > 0
    /\ ScoreAtCompetition(70) = call.ret
    /\ ScoreAtCompetition(71) < call.ret

---------------------------------------------------------------------------
(* Properties of the effects of the scorer's methods on records. *)

\* The raw metric fields of a record: what the collaborators measured.
RawFields ==
    {"keyword", "estimated_volume", "competition_score", "relevance_score",
     "big_brands_count", "has_featured_snippet", "has_knowledge_graph",
     "has_ads", "first_page_probability", "total_results"}

\* Field f is the same in the dicts before and after: missing in both, or
\* present in both with the same value.
SameField(before, after, f) ==
    /\ (f \in DOMAIN before) <=> (f \in DOMAIN after)
    /\ f \in DOMAIN before => after[f] = before[f]

\* The record objects of the caller's list.
Records == {keywords_data[k] : k \in 1..Len(keywords_data)}

\* C12: a rank_keywords call writes opportunity_score and ranking_potential
\* on every record of the input list, the records it does not return
\* included, and changes no raw metric field of any record.
C12_ScoresAllAndKeepsRawFields ==
    [][call'.op = "rank_keywords" =>
          \A i \in Records :
              /\ {"opportunity_score", "ranking_potential"}
                    \subseteq DOMAIN heap'[i]
              /\ heap'[i]["opportunity_score"]
                    = calculate_opportunity_score(scorer, heap[i])
              /\ \A f \in RawFields : SameField(heap[i], heap'[i], f)]_vars

\* A ranking that left out a record which carries raw metrics and SERP
\* flags, and now a score and a ranking potential.
C12_Witness ==
    /\ call.op = "rank_keywords"
    /\ \E i \in LeftOut :
          /\ {"opportunity_score", "ranking_potential"} \subseteq DOMAIN heap[i]
          /\ {"competition_score", "big_brands_count", "has_featured_snippet"}
                \subseteq DOMAIN heap[i]

\* C13: after any sequence of rank_keywords calls over the same records, a
\* record carries a rank field only if the most recent call returned it;
\* the records the latest call cut off carry no rank.
C13_RankOnlyOnRetained ==
    call.op = "rank_keywords" =>
        \A i \in LeftOut : "rank" \notin DOMAIN heap[i]

\* C14: the sequence rank_keywords returns consists of record objects of
\* the input list, each at most once, and no record object is created;
\* with top_n >= the size of the list it holds every record of the list.
C14_SubPermutation ==
    call.op = "rank_keywords" =>
        /\ \A k \in 1..Len(call.ret) : call.ret[k] \in Records
        /\ \A j, k \in 1..Len(call.ret) : j # k => call.ret[j] # call.ret[k]
        /\ DOMAIN heap = Records
        /\ call.top_n >= Len(keywords_data) =>
              /\ Len(call.ret) = Len(keywords_data)
              /\ {call.ret[k] : k \in 1..Len(call.ret)} = Records

\* A ranking of a whole list of three records, two of them with equal
\* scores, returned in another order than the list's.
C14_Witness ==
    /\ call.op = "rank_keywords"
    /\ call.top_n >= Len(keywords_data)
    /\ Len(call.ret) = 3
    /\ call.ret # keywords_data
    /\ \E j, k \in 1..3 : j # k /\ Score(call.ret[j]) = Score(call.ret[k])

\* C15: a call of calculate_opportunity_score, estimate_ranking_potential
\* or generate_reasoning changes no field of any record, and no step after
\* construction, a rank_keywords call included, changes the three weights.
C15_ReadOnly ==
    [][/\ call'.op \in DirectOps => heap' = heap
       /\ scorer.status = "ready" => scorer' = scorer]_vars

\* A direct scoring call on a record with a volume that held no score
\* before the call and holds none after it.
C15_Witness ==
    /\ call.op = "calculate_opportunity_score"
    /\ heap[call.obj] = call.arg
    /\ "opportunity_score" \notin DOMAIN heap[call.obj]
    /\ "estimated_volume" \in DOMAIN heap[call.obj]

---------------------------------------------------------------------------
(* Properties of the defaults and of the worked examples. *)

\* The record with every missing metric set to volume 1000, competition 50
\* and relevance 0.5.
WithDefaults(d) ==
    d @@ [estimated_volume |-> 1000, competition_score |-> 50,
          relevance_score |-> 50]

\* The three metrics a record supplies.
SuppliedMetrics(d) ==
    DOMAIN d \cap {"estimated_volume", "competition_score", "relevance_score"}

\* The weights are 0.4, 0.4 and 0.2.
DefaultWeights ==
    /\ scorer.volume_weight = Rat(4, 10)
    /\ scorer.competition_weight = Rat(4, 10)
    /\ scorer.relevance_weight = Rat(2, 10)

\* C17: a ranked record is scored as the record with volume 1000,
\* competition 50 and relevance 0.5 in the place of each metric it lacks and
\* its own values for the others; under the weights 0.4/0.4/0.2 a record
\* with no metric scores 31.26 and is rated Poor, and a record with only
\* the volume 1000000 scores 100*0.4 + 50*0.4 + 50*0.2 = 70.00.
C17_DefaultFill ==
    call.op = "rank_keywords" =>
        \A i \in Records :
            /\ Score(i) = calculate_opportunity_score(scorer, WithDefaults(heap[i]))
            /\ (DefaultWeights /\ SuppliedMetrics(heap[i]) = {}) =>
                  /\ Score(i) = 3126
                  /\ heap[i]["ranking_potential"].opportunity_rating = "Poor"
            /\ (/\ DefaultWeights
                /\ SuppliedMetrics(heap[i]) = {"estimated_volume"}
                /\ heap[i]["estimated_volume"] = 1000000) =>
                  Score(i) = 7000

\* A ranking under the weights 0.4/0.4/0.2 of a record with no metric,
\* scored 31.26 and rated Poor, and of a record with a volume alone.
C17_Witness ==
    /\ call.op = "rank_keywords"
    /\ DefaultWeights
    /\ \E i \in Records :
          /\ SuppliedMetrics(heap[i]) = {}
          /\ Score(i) = 3126
          /\ heap[i]["ranking_potential"].opportunity_rating = "Poor"
    /\ \E i \in Records : SuppliedMetrics(heap[i]) = {"estimated_volume"}

\* C18: for a record missing a metric, generate_reasoning words its volume,
\* competition and relevance clauses from the values the score and the
\* recommendation use for that record, volume 1000, competition 50 and
\* relevance 0.5: its text is the text for the record with those filled in.
C18_ReasoningUsesScoringDefaults ==
    call.op = "generate_reasoning" =>
        call.ret = generate_reasoning(WithDefaults(call.arg))

\* The hundredths value s lies within half a hundredth of
\*   min(sqrt(volume)/10, 100)*Wv + (100 - competition)*Wc + relevance*100*Wr
\* for the record d, its missing metrics read as the defaults: with the
\* weights over their common denominator D, 200*D times that value is
\* 20*Wv*sqrt(volume) + r, and the distance is compared in squares.  (For
\* weights with 20*Wv <= 46, so that the squares stay within 32 bits.)
IsRoundedFormula(self, d, s) ==
    LET volume == WithDefaults(d)["estimated_volume"]
        competition == WithDefaults(d)["competition_score"]
        relevance == WithDefaults(d)["relevance_score"]
        D == LCM(LCM(self.volume_weight.d, self.competition_weight.d),
                 self.relevance_weight.d)
        Wv == self.volume_weight.n * (D \div self.volume_weight.d)
        Wc == self.competition_weight.n * (D \div self.competition_weight.d)
        Wr == self.relevance_weight.n * (D \div self.relevance_weight.d)
        r == 200 * ((100 - competition) * Wc + relevance * Wr)
        a == 20 * Wv
        lo == 2 * D * s - D - r
        hi == 2 * D * s + D - r
    IN  IF volume >= 1000000
        THEN lo <= 1000 * a /\ 1000 * a <= hi
        ELSE /\ lo <= 0 \/ lo * lo <= a * a * volume
             /\ hi >= 0 /\ a * a * volume <= hi * hi

\* The raw metrics of the sample record of the module's example.
IsSampleRecord(d) ==
    /\ SuppliedMetrics(d)
          = {"estimated_volume", "competition_score", "relevance_score"}
    /\ d["estimated_volume"] = 2400
    /\ d["competition_score"] = 22
    /\ d["relevance_score"] = 92

\* The sample record after scoring and classification: 51.56, Low, Fair and
\* the recommendation of rule 2.
IsSampleResult(d) ==
    /\ d["opportunity_score"] = 5156
    /\ d["ranking_potential"].difficulty_category = "Low"
    /\ d["ranking_potential"].opportunity_rating = "Fair"
    /\ d["ranking_potential"].recommendation = QuickWin

\* C19: under the weights 0.4/0.4/0.2 the record {estimated_volume 2400,
\* competition_score 22, relevance_score 0.92} is scored 51.56 and classified
\* Low, Fair and Quick Win; and for every ranked record, at its own volume
\* and at every other volume, the score is
\* round(min(sqrt(volume)/10, 100)*Wv + (100 - competition)*Wc
\*       + relevance*100*Wr, 2).
C19_SampleAndFormula ==
    call.op = "rank_keywords" =>
        \A i \in Records :
            /\ (DefaultWeights /\ IsSampleRecord(heap[i]))
                  => IsSampleResult(heap[i])
            /\ IsRoundedFormula(scorer, heap[i], Score(i))
            /\ \A v \in Volumes :
                  LET d == Put(heap[i], "estimated_volume", v)
                  IN  IsRoundedFormula(scorer, d,
                                       calculate_opportunity_score(scorer, d))

\* The sample record ranked under the weights 0.4/0.4/0.2, with its results.
C19_Witness ==
    /\ call.op = "rank_keywords"
    /\ DefaultWeights
    /\ \E i \in Records :
          IsSampleRecord(heap[i]) /\ IsSampleResult(heap[i])

\* C20: calculate_keyword_difficulty returns min(big_brands_count*8, 40),
\* plus 10 for each true flag among has_featured_snippet,
\* has_knowledge_graph and has_ads, plus 30 if total_results > 100000000,
\* else 20 if > 10000000, else 10 if > 1000000, else 0, capped at 100; the
\* result lies in 0..100, and it is 74 for 3 big brands, a featured snippet,
\* a knowledge graph and 200000000 results.
C20_KeywordDifficulty ==
    call.op = "calculate_keyword_difficulty" =>
        LET big_brands == Get(call.arg, "big_brands_count", 0)
            total_results == Get(call.arg, "total_results", 0)
            flags == {f \in {"has_featured_snippet", "has_knowledge_graph",
                              "has_ads"} : Get(call.arg, f, FALSE)}
            results_points ==
                CASE total_results > 100000000 -> 30
                  [] total_results > 10000000
                       /\ total_results <= 100000000 -> 20
                  [] total_results > 1000000
                       /\ total_results <= 10000000 -> 10
                  [] total_results <= 1000000 -> 0
            sum == Min(big_brands * 8, 40) + 10 * Cardinality(flags)
                       + results_points
        IN  /\ call.ret = Min(sum, 100)
            /\ 0 <= call.ret /\ call.ret <= 100
            /\ (/\ big_brands = 3
                /\ flags = {"has_featured_snippet", "has_knowledge_graph"}
                /\ total_results = 200000000) => call.ret = 74

\* The difficulty 74 of a SERP with 3 big brands, a featured snippet, a
\* knowledge graph, no ads and 200000000 results.
C20_Witness ==
    /\ call.op = "calculate_keyword_difficulty"
    /\ Get(call.arg, "big_brands_count", 0) = 3
    /\ Get(call.arg, "has_featured_snippet", FALSE)
    /\ Get(call.arg, "has_knowledge_graph", FALSE)
    /\ ~Get(call.arg, "has_ads", FALSE)
    /\ Get(call.arg, "total_results", 0) = 200000000
    /\ call.ret = 74

---------------------------------------------------------------------------
(* Properties of the reasoning text. *)

\* The volumes of the reasoning calls as f"{volume:,}" prints them.
VolumeText(volume) ==
    CASE volume = 0 -> "0"
      [] volume = 1000 -> "1,000"
      [] volume = 1001 -> "1,001"
      [] volume = 5000 -> "5,000"
      [] volume = 5001 -> "5,001"

\* The clauses the claim names for a record, in the claim's order.
ExpectedClauses(d) ==
    LET volume == Get(d, "estimated_volume", 0)
        competition == Get(d, "competition_score", 0)
        brands == Get(d, "big_brands_count", 0)
        relevance == Get(d, "relevance_score", 0)
        volume_band ==
            CASE volume > 5000 -> "high search volume"
              [] volume > 1000 /\ volume <= 5000 -> "moderate search volume"
              [] volume <= 1000 -> "low search volume"
        competition_clause ==
            CASE competition < 30 -> "low competition"
              [] competition >= 30 /\ competition < 50 -> "moderate competition"
              [] competition >= 50 -> "high competition"
        brands_clause ==
            CASE brands = 0 -> "no major brands in top 10"
              [] brands = 2 -> "only 2 major brand(s) in top 10"
              [] brands = 3 -> "3 major brands dominating results"
        relevance_clause ==
            CASE relevance >= 80 -> "highly relevant to seed keyword"
              [] relevance >= 60 /\ relevance < 80 -> "moderately relevant"
              [] relevance < 60 -> "loosely related"
    IN  <<volume_band \o " (" \o VolumeText(volume) \o "/month)",
          competition_clause, brands_clause, relevance_clause>>
        \o (IF "has_featured_snippet" \in DOMAIN d /\ d["has_featured_snippet"]
            THEN <<"featured snippet present">> ELSE << >>)
        \o (IF "has_knowledge_graph" \in DOMAIN d /\ d["has_knowledge_graph"]
            THEN <<"knowledge graph present">> ELSE << >>)

\* The clauses of a list behind "keyword: ", separated by ", ".
ClauseText(d, clauses) ==
    LET sep(k) == IF k = 1 THEN "" ELSE ", "
        text[k \in 0..Len(clauses)] ==
            IF k = 0 THEN Get(d, "keyword", "") \o ": "
            ELSE text[k - 1] \o sep(k) \o clauses[k]
    IN  text[Len(clauses)]

\* C21: the reasoning text holds one clause each for volume, competition,
\* brand count and relevance, in that order, chosen by the bands
\* volume > 5000 / > 1000 / else, competition < 30 / < 50 / else,
\* brands 0 / <= 2 / else, relevance >= 0.8 / >= 0.6 / else, followed by a
\* featured-snippet clause iff has_featured_snippet is true and by a
\* knowledge-graph clause iff has_knowledge_graph is true: 4 to 6 clauses.
C21_ReasoningClauses ==
    call.op = "generate_reasoning" =>
        LET clauses == ExpectedClauses(call.arg)
        IN  /\ call.ret = ClauseText(call.arg, clauses)
            /\ 4 <= Len(clauses) /\ Len(clauses) <= 6
            /\ Len(clauses) = 6 <=>
                  (/\ Get(call.arg, "has_featured_snippet", FALSE)
                   /\ Get(call.arg, "has_knowledge_graph", FALSE))

\* A reasoning of six clauses, and its text.
C21_Witness ==
    /\ call.op = "generate_reasoning"
    /\ call.ret = "seo tools: high search volume (5,001/month), "
                      \o "moderate competition, "
                      \o "only 2 major brand(s) in top 10, "
                      \o "highly relevant to seed keyword, "
                      \o "featured snippet present, knowledge graph present"

---------------------------------------------------------------------------
(* Properties of the order of the steps. *)

\* C26: after a rank_keywords call the opportunity_rating and the
\* recommendation in every record's ranking_potential are the ones the
\* opportunity_score stored in that record determines, not the ones of a
\* score an earlier run left or of the default 50.
C26_PotentialFromStoredScore ==
    call.op = "rank_keywords" =>
        \A i \in Records :
            LET potential == heap[i]["ranking_potential"]
            IN  /\ potential.opportunity_rating =
                      CASE Score(i) >= 7500 -> "Excellent"
                        [] Score(i) >= 6000 /\ Score(i) < 7500 -> "Good"
                        [] Score(i) >= 4500 /\ Score(i) < 6000 -> "Fair"
                        [] Score(i) < 4500 -> "Poor"
                /\ \E n \in 1..6 :
                      /\ RuleHolds(n, heap[i])
                      /\ \A m \in 1..(n - 1) : ~RuleHolds(m, heap[i])
                      /\ potential.recommendation = RuleText(n)

\* A ranked record that came with the score 90.00 of an earlier run, now
\* scored 70.00 and rated Good, and a ranked record that came with no score,
\* rated Poor.
C26_Witness ==
    /\ call.op = "rank_keywords"
    /\ \E i \in Records :
          /\ Get(heap[i], "estimated_volume", 1000) = 4000000
          /\ Score(i) = 7000
          /\ heap[i]["ranking_potential"].opportunity_rating = "Good"
    /\ \E i \in Records :
          /\ Score(i) = 3126
          /\ heap[i]["ranking_potential"].opportunity_rating = "Poor"

---------------------------------------------------------------------------
(* Properties of SerpClient.search. *)

\* The positions of the log that are API attempts, and the failed ones.
AttemptsAt(log) == {k \in 1..Len(log) : log[k].what = "attempt"}

FailuresAt(log) == {k \in AttemptsAt(log) : log[k].error # "none"}

SleepsAt(log) == {k \in 1..Len(log) : log[k].what = "sleep"}

\* C27: search makes at most max_retries (3) API attempts and has ended
\* once it made three; it returns the response of the first successful
\* attempt and attempts nothing after it; it sleeps retry_delay after a
\* failed attempt that another attempt follows and at no other time, so
\* not after the last attempt; when all three attempts fail it raises the
\* error of the third; it never returns the empty dict after a failure.
C27_SearchRetries ==
    call.op = "search" =>
        LET log == call.log
            attempts == AttemptsAt(log)
            failures == FailuresAt(log)
            sleeps == SleepsAt(log)
        IN  /\ Cardinality(attempts) <= max_retries
            /\ Cardinality(attempts) = max_retries
                   => call.status # "running"
            /\ \A k \in attempts \ failures :
                   k = Len(log) /\ call.status = "returned"
            /\ call.status = "returned" =>
                   /\ Len(log) \in attempts \ failures
                   /\ call.ret \in SearchResponses
                   /\ call.ret # EmptyDict
            /\ \A k \in sleeps :
                   /\ log[k].secs = retry_delay
                   /\ k - 1 \in failures
                   /\ call.status = "running" => Cardinality(attempts) < max_retries
                   /\ call.status # "running" => k + 1 \in attempts
            /\ \A k \in failures :
                   Cardinality({j \in attempts : j <= k}) < max_retries
                       => k + 1 \in sleeps
            /\ call.status = "raised" =>
                   /\ Cardinality(failures) = max_retries
                   /\ attempts = failures
                   /\ Len(log) \in failures
                   /\ call.error = log[Len(log)].error
                   /\ sleeps = {k + 1 : k \in failures} \ {Len(log) + 1}

\* A call that raised the error of its third attempt after two attempts
\* that failed with other errors, having slept twice.
C27_Witness ==
    /\ call.op = "search"
    /\ call.status = "raised"
    /\ call.error = "HTTPError"
    /\ Cardinality(SleepsAt(call.log)) = 2
    /\ call.log[1].error = "ConnectionError"
    /\ call.log[3].error = "Timeout"

---------------------------------------------------------------------------
(* Properties of _merge_keywords. *)

\* The cleaned form of a keyword.
Cleaned(kw) == strip(lower(kw))

\* The keywords of the four sources in the order llm, serp, trends, seed.
Sources(frame) ==
    Append(frame.llm_kw \o frame.serp_kw \o frame.trends_kw, frame.seed_kw)

\* The first position in the sources of a keyword with the cleaned form c.
FirstOccurrence(frame, c) ==
    CHOOSE k \in 1..Len(Sources(frame)) :
        /\ Cleaned(Sources(frame)[k]) = c
        /\ \A j \in 1..(k - 1) : Cleaned(Sources(frame)[j]) # c

\* C28: the list _merge_keywords returns has no duplicates; every entry
\* has no upper-case letter, no whitespace at its ends and more than 3
\* characters, and is the cleaned form of a keyword of the sources; the
\* entries are in the order of their first occurrences across llm, serp,
\* trends and the seed; every keyword of the sources whose cleaned form has
\* more than 3 characters is there exactly once; and no two of the records
\* made from the list have the same keyword.
C28_MergedKeywords ==
    /\ (call.op = "_merge_keywords" /\ call.status = "returned") =>
          LET ret == call.ret
              sources == Sources(call)
          IN  /\ \A a, b \in 1..Len(ret) : ret[a] = ret[b] => a = b
              /\ \A a \in 1..Len(ret) :
                    /\ \A k \in 1..Len(ret[a]) :
                          \A n \in 1..26 : ret[a][k] # UpperCase[n]
                    /\ Len(ret[a]) > 3
                    /\ ret[a][1] \notin Whitespace
                    /\ ret[a][Len(ret[a])] \notin Whitespace
                    /\ \E k \in 1..Len(sources) : Cleaned(sources[k]) = ret[a]
              /\ \A a, b \in 1..Len(ret) :
                    a < b => FirstOccurrence(call, ret[a])
                                 < FirstOccurrence(call, ret[b])
              /\ \A k \in 1..Len(sources) :
                    Len(Cleaned(sources[k])) > 3 =>
                        Cardinality({a \in 1..Len(ret) :
                                        ret[a] = Cleaned(sources[k])}) = 1
    /\ call.op = "_add_relevance_scores" =>
          /\ Len(keywords_data) = Len(call.keywords)
          /\ \A a, b \in 1..Len(keywords_data) :
                heap[keywords_data[a]].keyword = heap[keywords_data[b]].keyword
                    => a = b

\* A merge of "jobs " from the LLM, "seo " from SERP, tab "SEO tips"
\* newline from trends and the seed "Jobs": it returned "jobs" and
\* "seo tips", and the two records made from them carry these keywords.
C28_Witness ==
    /\ call.op = "_add_relevance_scores"
    /\ call.all_keywords =
          << <<"j", "o", "b", "s", " ">>,
             <<"s", "e", "o", " ">>,
             <<"\t", "S", "E", "O", " ", "t", "i", "p", "s", "\n">>,
             <<"j", "o", "b", "s">> >>
    /\ call.keywords = << <<"j", "o", "b", "s">>,
                          <<"s", "e", "o", " ", "t", "i", "p", "s">> >>
    /\ Len(keywords_data) = 2
    /\ heap[keywords_data[1]].keyword = "jobs"
    /\ heap[keywords_data[2]].keyword = "seo tips"

---------------------------------------------------------------------------
(* Properties of concurrent calls of rank_keywords. *)

\* The heap and the two returned lists when the call of thread t runs
\* from its first to its last statement on the heap before the calls, and
\* the call of the other thread u runs after it.
OneAfterAnother(t, u) ==
    LET first == rank_keywords(scorer, call.heap0,
                               call.threads[t].keywords_data,
                               call.threads[t].top_n)
        second == rank_keywords(scorer, first.heap,
                                call.threads[u].keywords_data,
                                call.threads[u].top_n)
    IN  [heap |-> second.heap, ret |-> (t :> first.ret) @@ (u :> second.ret)]

\* C25: when two calls of rank_keywords on disjoint lists of records and
\* one scorer have both returned, after any interleaving of their
\* statements, every record has the fields (opportunity_score,
\* ranking_potential and rank among them) and each call has returned
\* the list that the two calls give when run one after the other, in
\* either order; and the scorer is as it was constructed.
C25_InterleavingsAsSequential ==
    (call.op = "threads" /\ \A t \in Threads : call.threads[t].pc = "done")
        => /\ heap = OneAfterAnother(1, 2).heap
           /\ heap = OneAfterAnother(2, 1).heap
           /\ \A t \in Threads :
                 /\ call.threads[t].ret = OneAfterAnother(1, 2).ret[t]
                 /\ call.threads[t].ret = OneAfterAnother(2, 1).ret[t]
           /\ scorer = KeywordScorer_init(env)

\* Two calls that have returned after an interleaved run, each on two
\* records, one of them the record that came with the score of an earlier
\* run; the first call ranked both of its records, the second one of two.
C25_Witness ==
    /\ call.op = "threads"
    /\ call.interleaved
    /\ \A t \in Threads : call.threads[t].pc = "done"
    /\ Len(call.threads[1].ret) = 2
    /\ Len(call.threads[2].keywords_data) = 2
    /\ Len(call.threads[2].ret) = 1
    /\ \E i \in 1..Len(call.heap0) :
          Get(call.heap0[i], "opportunity_score", 0) = 9000

---------------------------------------------------------------------------
(* Properties of the research workflow. *)

\* The records have been handed to the ranker.
ReachedRanker ==
    call.op = "research_keywords" /\ call.pc \in {"step9", "returned"}

\* C22: a record whose competition lookup raised at every attempt reaches
\* the ranker with competition_score 50, first_page_probability 0.5 (50
\* hundredths), the three flags false, and big_brands_count and
\* total_results 0.
C22_CompetitionFallback ==
    ReachedRanker =>
        \A ref \in call.serp_failed :
            /\ heap[ref].competition_score = 50
            /\ heap[ref].first_page_probability = 50
            /\ ~heap[ref].has_featured_snippet
            /\ ~heap[ref].has_knowledge_graph
            /\ ~heap[ref].has_ads
            /\ heap[ref].big_brands_count = 0
            /\ heap[ref].total_results = 0

\* C23: with trends on, a record whose trends lookups raised at every
\* attempt reaches the ranker with estimated_volume 1000 and the trend
\* 'stable'.
C23_TrendsFallback ==
    ReachedRanker =>
        \A ref \in call.trends_failed :
            /\ heap[ref].estimated_volume = 1000
            /\ heap[ref].trend = "stable"

\* A returned run with two ranked records, the trends lookups of one of
\* them having raised at every attempt, those of the other not.
C23_Witness ==
    /\ call.op = "research_keywords"
    /\ call.pc = "returned"
    /\ call.trends_enabled
    /\ Len(call.top_keywords) = 2
    /\ Cardinality(call.trends_failed) = 1
    /\ \E ref \in call.trends_failed : heap[ref].rank = 1
    /\ \E k \in 1..Len(keywords_data) :
          /\ keywords_data[k] \notin call.trends_failed
          /\ heap[keywords_data[k]].estimated_volume = 1600

\* C24: whatever collaborator fails, research_keywords does not end
\* before the ranking step: no run ends with an error raised before
\* step 8.
C24_NeverAbortsBeforeRanking ==
    call.op = "research_keywords" => call.pc # "raised"

============================================================================
